---- MODULE Spec2Model ----
(***************************************************************************)
(* Model of the Markdown to Quill Delta converter,                         *)
(* src/functions/markdown_to_delta.py (class MarkdownToDelta).             *)
(*                                                                         *)
(* A Python str is a sequence of one-character strings.  Offsets are the   *)
(* 0-based offsets Python uses (match.start(), match.end(), slices); the   *)
(* character at offset k of text is text[k + 1].                           *)
(*                                                                         *)
(* A delta operation is a record with the field insert and, only when the  *)
(* Python dict has the key, the field attributes.  The value of insert is  *)
(* [text |-> s] for a str and [image |-> url] or [divider |-> TRUE] for an *)
(* embed dict.  attributes is a function from the keys present to their    *)
(* values; the empty dict {} is the function with the empty domain.        *)
(***************************************************************************)
EXTENDS Integers, Sequences, FiniteSets, TLC

VARIABLES
    markdown,   \* argument of convert
    lines,      \* markdown.split('\n')
    i,          \* scan cursor of the while loop
    line,       \* lines[i] of the iteration that ran last
    emitted,    \* what that iteration appended to ops
    ops,        \* the accumulator of convert
    pc,         \* position in convert / in the normalizer harness
    result,     \* value returned by convert
    arg,        \* list object handed to _cleanup_ops, as the call leaves it
    ret,        \* value returned by the last _cleanup_ops call
    calls,      \* number of _cleanup_ops calls made by the harness
    converter,  \* the MarkdownToDelta instance convert is called on
    returned,   \* the calls the instance has completed: markdown and result
    threads,    \* the locals of each of several concurrent convert calls
    word_start,                 \* find_speaker_optimized: argument
    word_end,                   \* find_speaker_optimized: argument
    diarization_segments,       \* find_speaker_optimized: argument segments
    diarization_start_times,    \* find_speaker_optimized: argument start_times
    idx,                        \* find_speaker_optimized: loop index
    max_overlap,                \* find_speaker_optimized: local
    assigned_speaker,           \* find_speaker_optimized: local, returned
    whisper_model,      \* transcribe-api: module global
    pyannote_pipeline,  \* transcribe-api: module global
    models_loading,     \* transcribe-api: module global
    models_loaded,      \* transcribe-api: module global
    responses,          \* transcribe-api: what the requests handled so far returned
    conversations,          \* create_conversation: the documents of the store
    conversation_doc_ref,   \* create_conversation: local, Unbound before its assignment
    storage,                \* create_conversation: the audio files uploaded
    replies                 \* create_conversation: how each handled request ended

\* What is not a local of the single call or of the normalizer harness.
find_speaker_vars == <<word_start, word_end, diarization_segments,
                       diarization_start_times, idx, max_overlap, assigned_speaker>>

transcribe_api_vars == <<whisper_model, pyannote_pipeline, models_loading,
                         models_loaded, responses>>

create_conversation_vars == <<conversations, conversation_doc_ref, storage, replies>>

\* The state of the programs beside the converter.
others == <<find_speaker_vars, transcribe_api_vars, create_conversation_vars>>

outside == <<converter, returned, threads, others>>

vars == <<markdown, lines, i, line, emitted, ops, pc, result, arg, ret, calls,
          converter, returned, threads, others>>

\* find_speaker_optimized is not being called.
FindSpeakerIdle ==
    /\ word_start = 0
    /\ word_end = 0
    /\ diarization_segments = <<>>
    /\ diarization_start_times = <<>>
    /\ idx = 0
    /\ max_overlap = 0
    /\ assigned_speaker = "UNKNOWN"

\* The transcription service as its module is imported, before start-up.
TranscribeApiIdle ==
    /\ whisper_model = "None"
    /\ pyannote_pipeline = "None"
    /\ models_loading = FALSE
    /\ models_loaded = FALSE
    /\ responses = <<>>

\* Stands for a local that no assignment has bound yet; document ids are 1, 2, ...
Unbound == 0

\* No create_conversation request has been made.
CreateConversationIdle ==
    /\ conversations = {}
    /\ conversation_doc_ref = Unbound
    /\ storage = {}
    /\ replies = <<>>

OthersIdle == FindSpeakerIdle /\ TranscribeApiIdle /\ CreateConversationIdle

(***************************************************************************)
(* Strings                                                                 *)
(***************************************************************************)

\* Characters matched by \s and removed by str.strip().
Whitespace == {" ", "\t", "\r", "\f", "\n"}

\* The grave accent U+0060: the one character a TLA+ string literal cannot
\* hold, so this atom stands for it wherever a character is expected.
Backtick == "GRAVE"

Digits == {"0", "1", "2", "3", "4", "5", "6", "7", "8", "9"}

\* text[k] with a 0-based offset; "" stands for "no character there".
At(text, k) == IF k >= 0 /\ k < Len(text) THEN text[k + 1] ELSE ""

\* text[a:b]
Slice(text, a, b) == SubSeq(text, a + 1, b)

\* text.startswith(lit, k)
HasAt(text, k, lit) ==
    /\ k >= 0
    /\ k + Len(lit) <= Len(text)
    /\ \A j \in 1..Len(lit) : text[k + j] = lit[j]

\* Number of leading characters of text that belong to cs.
RECURSIVE Span(_, _, _)
Span(text, k, cs) ==
    IF k < Len(text) /\ text[k + 1] \in cs THEN Span(text, k + 1, cs) ELSE k

\* Offset of the first character at or after k that belongs to cs,
\* Len(text) when there is none.
RECURSIVE Find(_, _, _)
Find(text, k, cs) ==
    IF k < Len(text) /\ text[k + 1] \notin cs THEN Find(text, k + 1, cs) ELSE k

RECURSIVE RStripLen(_)
RStripLen(text) ==
    IF Len(text) > 0 /\ text[Len(text)] \in Whitespace
    THEN RStripLen(SubSeq(text, 1, Len(text) - 1))
    ELSE Len(text)

\* str.strip()
Strip(text) ==
    LET b == RStripLen(text)
        a == Span(SubSeq(text, 1, b), 0, Whitespace)
    IN  Slice(text, a, b)

\* str.split('\n')
RECURSIVE Split(_)
Split(text) ==
    LET k == Find(text, 0, {"\n"})
    IN  IF k = Len(text) THEN <<text>>
        ELSE <<Slice(text, 0, k)>> \o Split(Slice(text, k + 1, Len(text)))

RECURSIVE Flatten(_)
Flatten(ss) == IF ss = <<>> THEN <<>> ELSE Head(ss) \o Flatten(Tail(ss))

(***************************************************************************)
(* Regular expressions of the inline pattern tables                        *)
(*                                                                         *)
(* A match is [ok, start, end, g1, g2]: match.start(), match.end(),        *)
(* match.group(1), match.group(2).  Every matcher below answers "does the  *)
(* pattern match with its first character at offset s", as re does when it *)
(* tries offset s.                                                         *)
(***************************************************************************)

Min(S) == CHOOSE x \in S : \A y \in S : x <= y

NoMatch == [ok |-> FALSE, start |-> 0, end |-> 0, g1 |-> <<>>, g2 |-> <<>>]

\* d(.+?)d for a literal delimiter d: the lazy group takes the fewest
\* characters (at least one, none of them a newline) that a d follows.
LazyDelimAt(text, s, d) ==
    LET n == Len(d)
        stop == Find(text, s + n, {"\n"})
        K == {k \in 1..(stop - s - n) : HasAt(text, s + n + k, d)}
    IN  IF HasAt(text, s, d) /\ K # {}
        THEN [ok |-> TRUE, start |-> s, end |-> s + n + Min(K) + n,
              g1 |-> Slice(text, s + n, s + n + Min(K)), g2 |-> <<>>]
        ELSE NoMatch

\* Mutant of LoneMarker: the marker without its lookbehind and lookahead.
AnyMarker(text, k, c) == At(text, k) = c

\* (?<!c)c(?!c)   at offset k
LoneMarker(text, k, c) ==
    At(text, k) = c /\ At(text, k - 1) # c /\ At(text, k + 1) # c

\* Mutant of ItalicAt: an opening marker without a closing one takes the
\* rest of the text.
ItalicToEnd(text, s, c) ==
    IF LoneMarker(text, s, c) /\ s + 1 < Len(text)
    THEN [ok |-> TRUE, start |-> s, end |-> Len(text),
          g1 |-> Slice(text, s + 1, Len(text)), g2 |-> <<>>]
    ELSE NoMatch

\* (?<!c)c(?!c)(.+?)(?<!c)c(?!c)
ItalicAt(text, s, c) ==
    LET stop == Find(text, s + 1, {"\n"})
        Q == {q \in (s + 2)..(Len(text) - 1) :
                 q <= stop /\ LoneMarker(text, q, c)}
    IN  IF LoneMarker(text, s, c) /\ Q # {}
        THEN [ok |-> TRUE, start |-> s, end |-> Min(Q) + 1,
              g1 |-> Slice(text, s + 1, Min(Q)), g2 |-> <<>>]
        ELSE NoMatch

\* Backtick ([^Backtick]+) Backtick: the inline code pattern
CodeAt(text, s) ==
    LET q == Find(text, s + 1, {Backtick})
    IN  IF At(text, s) = Backtick /\ q < Len(text) /\ q > s + 1
        THEN [ok |-> TRUE, start |-> s, end |-> q + 1,
              g1 |-> Slice(text, s + 1, q), g2 |-> <<>>]
        ELSE NoMatch

\* \[([^\]]<rep>)\]\(([^)]+)\)  with the opening bracket at offset b;
\* minText is 1 for the repetition + and 0 for the repetition *.
BracketParenAt(text, s, b, minText) ==
    LET q == Find(text, b + 1, {"]"})
        r == Find(text, q + 2, {")"})
    IN  IF /\ At(text, b) = "["
           /\ q < Len(text) /\ q - (b + 1) >= minText
           /\ At(text, q + 1) = "("
           /\ r < Len(text) /\ r > q + 2
        THEN [ok |-> TRUE, start |-> s, end |-> r + 1,
              g1 |-> Slice(text, b + 1, q), g2 |-> Slice(text, q + 2, r)]
        ELSE NoMatch

\* \[([^\]]+)\]\(([^)]+)\)
LinkAt(text, s) == BracketParenAt(text, s, s, 1)

\* !\[([^\]]*)\]\(([^)]+)\)
ImageAt(text, s) ==
    IF At(text, s) = "!" THEN BracketParenAt(text, s, s + 1, 0) ELSE NoMatch

NoAttrs == [k \in {} |-> TRUE]

\* self.inline_patterns: (pattern, handler) pairs, in declaration order.
inline_patterns == <<
    [re |-> "image",  lit |-> <<>>,              handler |-> "image",  attributes |-> NoAttrs],
    [re |-> "link",   lit |-> <<>>,              handler |-> "link",   attributes |-> NoAttrs],
    [re |-> "delim",  lit |-> <<"*", "*", "*">>, handler |-> "format", attributes |-> [bold |-> TRUE, italic |-> TRUE]],
    [re |-> "delim",  lit |-> <<"_", "_", "_">>, handler |-> "format", attributes |-> [bold |-> TRUE, italic |-> TRUE]],
    [re |-> "delim",  lit |-> <<"*", "*">>,      handler |-> "format", attributes |-> [bold |-> TRUE]],
    [re |-> "delim",  lit |-> <<"_", "_">>,      handler |-> "format", attributes |-> [bold |-> TRUE]],
    [re |-> "italic", lit |-> <<"*">>,           handler |-> "format", attributes |-> [italic |-> TRUE]],
    [re |-> "italic", lit |-> <<"_">>,           handler |-> "format", attributes |-> [italic |-> TRUE]],
    [re |-> "delim",  lit |-> <<"~", "~">>,      handler |-> "format", attributes |-> [strike |-> TRUE]],
    [re |-> "code",   lit |-> <<>>,              handler |-> "format", attributes |-> [code |-> TRUE]] >>

\* The object __init__ constructs: its one field is the pattern table.
MarkdownToDelta == [inline_patterns |-> inline_patterns]

\* nested_patterns of _parse_nested_inline: (pattern, attrs) pairs.
nested_patterns == <<
    [re |-> "delim",  lit |-> <<"*", "*">>, attributes |-> [bold |-> TRUE]],
    [re |-> "delim",  lit |-> <<"_", "_">>, attributes |-> [bold |-> TRUE]],
    [re |-> "italic", lit |-> <<"*">>,      attributes |-> [italic |-> TRUE]],
    [re |-> "italic", lit |-> <<"_">>,      attributes |-> [italic |-> TRUE]],
    [re |-> "delim",  lit |-> <<"~", "~">>, attributes |-> [strike |-> TRUE]],
    [re |-> "code",   lit |-> <<>>,         attributes |-> [code |-> TRUE]] >>

\* One attempt of pattern p at offset s.
MatchAt(p, text, s) ==
    CASE p.re = "image"  -> ImageAt(text, s)
      [] p.re = "link"   -> LinkAt(text, s)
      [] p.re = "delim"  -> LazyDelimAt(text, s, p.lit)
      [] p.re = "italic" -> ItalicAt(text, s, p.lit[1])
      [] p.re = "code"   -> CodeAt(text, s)

\* re.finditer(pattern, text): the leftmost match at or after from, then the
\* leftmost match at or after its end, and so on.
RECURSIVE finditer(_, _, _)
RECURSIVE Search(_, _, _)

\* The attempt at offset s succeeded with m, or the search moves on.
SearchStep(m, p, text, s) == IF m.ok THEN m ELSE Search(p, text, s + 1)

\* pattern.search(text, s): the attempts at offsets s, s + 1, ...
Search(p, text, s) ==
    IF s >= Len(text) THEN NoMatch
    ELSE SearchStep(MatchAt(p, text, s), p, text, s)

IterFrom(m, p, text) ==
    IF m.ok THEN <<m>> \o finditer(p, text, m.end) ELSE <<>>

finditer(p, text, from) == IterFrom(Search(p, text, from), p, text)

\* The matches list built by the two nested for loops: for each pattern of
\* the table (from index k on) that is not skipped, its matches in order.
\* The entries appended for the matches of pattern k; pat stands for the
\* handler (or attrs) stored with each match.
MatchEntries(found, k) ==
    [j \in 1..Len(found) |->
        [start |-> found[j].start, end |-> found[j].end,
         g1 |-> found[j].g1, g2 |-> found[j].g2, pat |-> k]]

RECURSIVE CollectMatches(_, _, _, _)
CollectMatches(table, k, text, skip) ==
    IF k > Len(table) THEN <<>>
    ELSE MatchEntries(IF skip[k] THEN <<>> ELSE finditer(table[k], text, 0), k)
         \o CollectMatches(table, k + 1, text, skip)

\* Mutant of KeyLE: the key is (start, end - start), shorter matches first.
KeyLEShorterFirst(a, b) ==
    \/ a.start < b.start
    \/ a.start = b.start /\ (a.end - a.start) <= (b.end - b.start)

\* key(a) <= key(b) for the sort key (start, -(end - start))
KeyLE(a, b) ==
    \/ a.start < b.start
    \/ a.start = b.start /\ (a.end - a.start) >= (b.end - b.start)

\* list.sort(key=...): stable, so equal keys keep the order of the list.
\* m placed after the k entries of the sorted list whose key is <= its key.
InsertAt(sorted, m, k) ==
    SubSeq(sorted, 1, k) \o <<m>> \o SubSeq(sorted, k + 1, Len(sorted))

InsertSorted(sorted, m) ==
    InsertAt(sorted, m, Cardinality({j \in 1..Len(sorted) : KeyLE(sorted[j], m)}))

RECURSIVE SortMatches(_)
SortMatches(ms) ==
    IF ms = <<>> THEN <<>>
    ELSE InsertSorted(SortMatches(SubSeq(ms, 1, Len(ms) - 1)), ms[Len(ms)])

\* The overlap filter: keep a match when its start is not before last_end.
RECURSIVE FilterOverlap(_, _)
FilterOverlap(ms, last_end) ==
    IF ms = <<>> THEN <<>>
    ELSE IF Head(ms).start >= last_end
         THEN <<Head(ms)>> \o FilterOverlap(Tail(ms), Head(ms).end)
         ELSE FilterOverlap(Tail(ms), last_end)

(***************************************************************************)
(* Delta operations                                                        *)
(***************************************************************************)

\* {"insert": text}
TextOp(text) == [insert |-> [text |-> text]]

\* {"insert": text, "attributes": attributes}
AttrOp(text, attributes) == [insert |-> [text |-> text], attributes |-> attributes]

\* {**a, **b}
MergeAttrs(a, b) ==
    [k \in DOMAIN a \cup DOMAIN b |-> IF k \in DOMAIN b THEN b[k] ELSE a[k]]

Newline == <<"\n">>

(***************************************************************************)
(* Inline resolver                                                         *)
(***************************************************************************)

\* The segment loop of _parse_nested_inline and what follows it.
RECURSIVE NestedSegments(_, _, _, _)
NestedSegments(text, filtered, pos, parent_attrs) ==
    IF filtered = <<>>
    THEN IF pos < Len(text)
         THEN <<AttrOp(Slice(text, pos, Len(text)), parent_attrs)>>
         ELSE <<>>
    ELSE (IF Head(filtered).start > pos
          THEN <<AttrOp(Slice(text, pos, Head(filtered).start), parent_attrs)>>
          ELSE <<>>)
         \o <<AttrOp(Head(filtered).g1,
                     MergeAttrs(parent_attrs,
                                nested_patterns[Head(filtered).pat].attributes))>>
         \o NestedSegments(text, Tail(filtered), Head(filtered).end, parent_attrs)

\* Mutant of NestedSkip: no nested pattern is skipped.
NestedSkipNone(parent_attrs) == [k \in 1..Len(nested_patterns) |-> FALSE]

\* The "continue" of the pattern loop: a nested pattern is skipped when the
\* parent already has one of its attribute keys.
NestedSkip(parent_attrs) ==
    [k \in 1..Len(nested_patterns) |->
        \E key \in DOMAIN nested_patterns[k].attributes : key \in DOMAIN parent_attrs]

\* "return segments if segments else [...]"
NestedReturn(segments, text, parent_attrs) ==
    IF segments # <<>> THEN segments ELSE <<AttrOp(text, parent_attrs)>>

\* _parse_nested_inline once the matches list is built.
NestedFromMatches(matches, text, parent_attrs) ==
    IF matches = <<>> THEN <<AttrOp(text, parent_attrs)>>
    ELSE NestedReturn(
            NestedSegments(text, FilterOverlap(SortMatches(matches), 0), 0, parent_attrs),
            text, parent_attrs)

_parse_nested_inline(text, parent_attrs) ==
    NestedFromMatches(
        CollectMatches(nested_patterns, 1, text, NestedSkip(parent_attrs)),
        text, parent_attrs)

\* Mutant of FormatReturn: the nested segments are returned whatever their number.
FormatReturnAlways(nested_ops, content, attributes) == nested_ops

\* "if len(nested_ops) > 1: return nested_ops" and the return after it.
FormatReturn(nested_ops, content, attributes) ==
    IF Len(nested_ops) > 1 THEN nested_ops ELSE <<AttrOp(content, attributes)>>

\* Every handler's result is given as the list of operations _parse_inline
\* adds for it (a dict result is appended, a list result extends).
_handle_format(match, attributes) ==
    FormatReturn(_parse_nested_inline(match.g1, attributes), match.g1, attributes)

\* Mutant of _handle_link: the link text goes through nested resolution.
HandleLinkNested(match) == _parse_nested_inline(match.g1, [link |-> match.g2])

_handle_link(match) == <<AttrOp(match.g1, [link |-> match.g2])>>

_handle_image(match) ==
    <<[insert |-> [image |-> match.g2],
       attributes |-> IF match.g1 # <<>> THEN [alt |-> match.g1] ELSE NoAttrs]>>

\* m['handler'](m['match'])
CallHandler(self, m) ==
    CASE self.inline_patterns[m.pat].handler = "image" -> _handle_image(m)
      [] self.inline_patterns[m.pat].handler = "link"  -> _handle_link(m)
      [] OTHER -> _handle_format(m, self.inline_patterns[m.pat].attributes)

\* The segment loop of _parse_inline and the "remaining plain text" step.
RECURSIVE InlineSegments(_, _, _, _)
InlineSegments(self, text, filtered, pos) ==
    IF filtered = <<>>
    THEN IF pos < Len(text) THEN <<TextOp(Slice(text, pos, Len(text)))>> ELSE <<>>
    ELSE (IF Head(filtered).start > pos
          THEN <<TextOp(Slice(text, pos, Head(filtered).start))>>
          ELSE <<>>)
         \o CallHandler(self, Head(filtered))
         \o InlineSegments(self, text, Tail(filtered), Head(filtered).end)

\* "if not segments and text: segments.append({'insert': text})"
InlineReturn(segments, text) ==
    IF segments = <<>> /\ text # <<>> THEN <<TextOp(text)>> ELSE segments

_parse_inline(self, text) ==
    IF text = <<>> THEN <<>>
    ELSE InlineReturn(
            InlineSegments(
                self, text,
                FilterOverlap(
                    SortMatches(
                        CollectMatches(self.inline_patterns, 1, text,
                                       [k \in 1..Len(self.inline_patterns) |-> FALSE])),
                    0),
                0),
            text)

(***************************************************************************)
(* Normalizer                                                              *)
(***************************************************************************)

IsStr(op) == "text" \in DOMAIN op.insert

HasAttributes(op) == "attributes" \in DOMAIN op

\* Mutant of KeptByCleanup: nothing is dropped.
KeptAlways(op) == TRUE

\* Mutant of KeptByCleanup: every empty string insert is dropped, styled or not.
KeptUnlessEmpty(op) == op.insert # [text |-> <<>>]

\* First loop of _cleanup_ops: the operations kept in cleaned.
KeptByCleanup(op) == ~(op.insert = [text |-> <<>>] /\ ~HasAttributes(op))

\* Mutant of Mergeable: the attributes of the operation merged into are not
\* looked at.
MergeableIntoFormatted(last, op) ==
    IsStr(op) /\ IsStr(last) /\ ~HasAttributes(op)

\* Mutant of Mergeable: a newline insert is never added to the text before it.
MergeableKeepNewline(last, op) ==
    /\ IsStr(op) /\ IsStr(last) /\ ~HasAttributes(op) /\ ~HasAttributes(last)
    /\ op.insert.text # Newline

\* The condition under which the merge loop adds op to the last operation.
Mergeable(last, op) ==
    IsStr(op) /\ IsStr(last) /\ ~HasAttributes(op) /\ ~HasAttributes(last)

\* Second loop of _cleanup_ops.
RECURSIVE MergeLoop(_, _)
MergeLoop(merged, cleaned) ==
    IF cleaned = <<>> THEN merged
    ELSE LET op == Head(cleaned)
             n == Len(merged)
         IN  IF n > 0 /\ Mergeable(merged[n], op)
             THEN MergeLoop(
                    [merged EXCEPT ![n] = TextOp(merged[n].insert.text \o op.insert.text)],
                    Tail(cleaned))
             ELSE MergeLoop(Append(merged, op), Tail(cleaned))

\* Value returned by _cleanup_ops(ops).
_cleanup_ops(oplist) ==
    IF oplist = <<>> THEN oplist
    ELSE MergeLoop(<<>>, SelectSeq(oplist, KeptByCleanup))

\* The argument list as the call leaves it: cleaned and merged hold the
\* same dict objects as the argument, and "merged[-1]['insert'] += ..."
\* writes into the object at index target of the argument.
RECURSIVE ArgLoop(_, _, _)
ArgLoop(oplist, k, target) ==
    IF k > Len(oplist) THEN oplist
    ELSE IF ~KeptByCleanup(oplist[k]) THEN ArgLoop(oplist, k + 1, target)
    ELSE IF target > 0 /\ Mergeable(oplist[target], oplist[k])
         THEN ArgLoop(
                [oplist EXCEPT ![target] =
                    TextOp(oplist[target].insert.text \o oplist[k].insert.text)],
                k + 1, target)
         ELSE ArgLoop(oplist, k + 1, k)

ArgAfterCleanup(oplist) == ArgLoop(oplist, 1, 0)

(***************************************************************************)
(* Block scanner                                                           *)
(***************************************************************************)

\* \s+(.+)$ tried at offset k: the greedy \s+ takes the whole whitespace
\* run and gives one character back when nothing else is left for (.+).
\* (A line never holds "\n", the one character "." does not match.)
WsThenContent(ln, k) ==
    LET w == Span(ln, k, Whitespace)
    IN  IF w > k /\ w < Len(ln)
        THEN [ok |-> TRUE, content |-> Slice(ln, w, Len(ln))]
        ELSE IF w = Len(ln) /\ w - k >= 2
        THEN [ok |-> TRUE, content |-> Slice(ln, w - 1, Len(ln))]
        ELSE [ok |-> FALSE, content |-> <<>>]

\* Mutant of HeaderMatch: the pattern is #+ instead of #{1,6}.
HeaderMatchAnyLevel(ln) ==
    [ok |-> Span(ln, 0, {"#"}) >= 1 /\ WsThenContent(ln, Span(ln, 0, {"#"})).ok,
     level |-> Span(ln, 0, {"#"}),
     content |-> WsThenContent(ln, Span(ln, 0, {"#"})).content]

\* re.match(r'^(#{1,6})\s+(.+)$', line): level is len(group(1)).
HeaderMatch(ln) ==
    LET h == Span(ln, 0, {"#"})
        rest == WsThenContent(ln, h)
    IN  [ok |-> h >= 1 /\ h <= 6 /\ rest.ok, level |-> h, content |-> rest.content]

\* re.match(r'^>\s*(.*)$', line)
BlockquoteMatch(ln) ==
    [ok |-> At(ln, 0) = ">",
     content |-> Slice(ln, Span(ln, 1, Whitespace), Len(ln))]

\* re.match(r'^(\s*)[-*+]\s+(.+)$', line): lead is len(group(1)).
UnorderedMatch(ln) ==
    LET a == Span(ln, 0, Whitespace)
        rest == WsThenContent(ln, a + 1)
    IN  [ok |-> At(ln, a) \in {"-", "*", "+"} /\ rest.ok,
         lead |-> a, content |-> rest.content]

\* re.match(r'^(\s*)\d+\.\s+(.+)$', line)
OrderedMatch(ln) ==
    LET a == Span(ln, 0, Whitespace)
        d == Span(ln, a, Digits)
        rest == WsThenContent(ln, d + 1)
    IN  [ok |-> d > a /\ At(ln, d) = "." /\ rest.ok,
         lead |-> a, content |-> rest.content]

\* re.match(r'^[-*+]\s+\[([ xX])\]\s+(.+)$', line): mark is group(1).
TaskMatch(ln) ==
    LET w == Span(ln, 1, Whitespace)
        rest == WsThenContent(ln, w + 3)
    IN  [ok |-> /\ At(ln, 0) \in {"-", "*", "+"}
                /\ w > 1
                /\ At(ln, w) = "["
                /\ At(ln, w + 1) \in {" ", "x", "X"}
                /\ At(ln, w + 2) = "]"
                /\ rest.ok,
         mark |-> At(ln, w + 1), content |-> rest.content]

\* ^[c]{3,}$
AllOf(stripped, c) == \A k \in 1..Len(stripped) : stripped[k] = c

\* ^[c]\s+[c]\s+[c][\sc]*$
SpacedRule(stripped, c) ==
    LET a == Span(stripped, 1, Whitespace)
        b == Span(stripped, a + 1, Whitespace)
    IN  /\ At(stripped, 0) = c
        /\ a > 1 /\ At(stripped, a) = c
        /\ b > a + 1 /\ At(stripped, b) = c
        /\ Span(stripped, b + 1, Whitespace \cup {c}) = Len(stripped)

\* Mutant of _is_horizontal_rule: the spaced versions are not checked.
IsContiguousRule(ln) ==
    Len(Strip(ln)) >= 3 /\ \E c \in {"-", "*", "_"} : AllOf(Strip(ln), c)

_is_horizontal_rule(ln) ==
    LET stripped == Strip(ln)
    IN  IF Len(stripped) < 3 THEN FALSE
        ELSE \E c \in {"-", "*", "_"} : AllOf(stripped, c) \/ SpacedRule(stripped, c)

Fence == <<Backtick, Backtick, Backtick>>

\* line.strip().startswith(three backticks)
IsFenceOpen(ln) == HasAt(Strip(ln), 0, Fence)

\* '\n'.join(parts)
RECURSIVE Join(_)
Join(parts) ==
    IF parts = <<>> THEN <<>>
    ELSE IF Len(parts) = 1 THEN parts[1]
    ELSE parts[1] \o Newline \o Join(Tail(parts))

\* The value of the "code-block" key, the one key that holds values of two
\* Python types: True is [bool |-> TRUE], a language name is [str |-> name].
CodeBlockAttrs(language) ==
    [k \in {"code-block"} |->
        IF language # <<>> THEN [str |-> language] ELSE [bool |-> TRUE]]

\* The "for idx, code_line in enumerate(code_lines)" loop, from index k on.
RECURSIVE CodeLineOps(_, _, _)
CodeLineOps(code_lines, k, language) ==
    IF k > Len(code_lines) THEN <<>>
    ELSE (IF code_lines[k] # <<>> THEN <<TextOp(code_lines[k])>> ELSE <<>>)
         \o (IF k < Len(code_lines) \/ code_lines[k] # <<>>
             THEN <<AttrOp(Newline, CodeBlockAttrs(language))>>
             ELSE <<>>)
         \o CodeLineOps(code_lines, k + 1, language)

\* _handle_code_block(lines, start_idx) with 0-based start_idx; language
\* None is <<>> (a named language is never empty: first_line is stripped).
\* The language named by the stripped opening fence line.
FenceLanguage(first_line) ==
    IF Len(first_line) > 3 THEN Strip(Slice(first_line, 3, Len(first_line))) ELSE <<>>

\* Mutant of FenceClose: any line that starts with three backticks closes
\* the block.
RECURSIVE FenceCloseOnOpen(_, _)
FenceCloseOnOpen(ls, k) ==
    IF k < Len(ls) /\ ~IsFenceOpen(ls[k + 1]) THEN FenceCloseOnOpen(ls, k + 1) ELSE k

\* The "while i < len(lines)" loop: the 0-based index of the closing fence
\* line, Len(ls) when no line at or after k closes the block.
RECURSIVE FenceClose(_, _)
FenceClose(ls, k) ==
    IF k < Len(ls) /\ Strip(ls[k + 1]) # Fence THEN FenceClose(ls, k + 1) ELSE k

\* "Add code content": the operations for the collected lines.
CodeContentOps(code_lines, language) ==
    IF Join(code_lines) # <<>>
    THEN CodeLineOps(code_lines, 1, language)
         \o (IF code_lines # <<>>
             THEN <<AttrOp(Newline, CodeBlockAttrs(language))>>
             ELSE <<>>)
    ELSE <<>>

\* _handle_code_block once the loop has stopped at index close.
CodeBlockResult(ls, start_idx, close) ==
    [ops |-> CodeContentOps(SubSeq(ls, start_idx + 2, close),
                            FenceLanguage(Strip(ls[start_idx + 1]))),
     lines_consumed |-> (IF close < Len(ls) THEN close + 1 ELSE close) - start_idx]

_handle_code_block(ls, start_idx) ==
    CodeBlockResult(ls, start_idx, FenceClose(ls, start_idx + 1))

\* Mutant of ListAttrs: the "if indent > 0" guard is missing.
ListAttrsAlwaysIndent(kind, indent) == [list |-> kind, indent |-> indent]

\* list_attrs of the two list branches
ListAttrs(kind, indent) ==
    IF indent > 0 THEN [list |-> kind, indent |-> indent] ELSE [list |-> kind]

\* The branches of the loop body after the code-block and horizontal-rule
\* checks, tried in the order of the code: the text handed to
\* _parse_inline (inline says whether it is called at all), what is
\* appended in its place otherwise, and the newline operation that follows.
LineBlock(ln, header_match, blockquote_match, unordered_match, ordered_match, task_match) ==
    IF header_match.ok THEN
        [inline |-> TRUE, content |-> header_match.content, other |-> <<>>,
         newline |-> AttrOp(Newline, [header |-> header_match.level])]
    ELSE IF blockquote_match.ok THEN
        [inline |-> blockquote_match.content # <<>>,
         content |-> blockquote_match.content, other |-> <<TextOp(<<>>)>>,
         newline |-> AttrOp(Newline, [blockquote |-> TRUE])]
    ELSE IF unordered_match.ok THEN
        [inline |-> TRUE, content |-> unordered_match.content, other |-> <<>>,
         newline |-> AttrOp(Newline, ListAttrs("bullet", unordered_match.lead \div 2))]
    ELSE IF ordered_match.ok THEN
        [inline |-> TRUE, content |-> ordered_match.content, other |-> <<>>,
         newline |-> AttrOp(Newline, ListAttrs("ordered", ordered_match.lead \div 2))]
    ELSE IF task_match.ok THEN
        [inline |-> TRUE, content |-> task_match.content, other |-> <<>>,
         newline |-> AttrOp(Newline,
                        [list |-> IF task_match.mark \in {"x", "X"}
                                  THEN "checked" ELSE "unchecked"])]
    ELSE
        [inline |-> Strip(ln) # <<>>, content |-> ln, other |-> <<>>,
         newline |-> TextOp(Newline)]

\* Mutant of BlockOps: the newline is appended only together with inline text.
BlockOpsNewlineWithText(self, block) ==
    IF block.inline THEN _parse_inline(self, block.content) \o <<block.newline>>
    ELSE block.other

\* Mutant of BlockOps: the newline is appended before the inline operations.
BlockOpsNewlineFirst(self, block) ==
    <<block.newline>>
    \o (IF block.inline THEN _parse_inline(self, block.content) ELSE block.other)

\* What such a branch appends to ops.
BlockOps(self, block) ==
    (IF block.inline THEN _parse_inline(self, block.content) ELSE block.other)
    \o <<block.newline>>

\* Mutant of CodeBlockStep: the opening fence line is not counted.
CodeBlockStepNoFence(cb) == [ops |-> cb.ops, step |-> cb.lines_consumed - 1]

CodeBlockStep(cb) == [ops |-> cb.ops, step |-> cb.lines_consumed]

\* One iteration of the while loop of convert at cursor k (0-based): what
\* it appends to ops and by how much it advances the cursor.
ScanStep(self, ls, k) ==
    IF IsFenceOpen(ls[k + 1]) THEN
        CodeBlockStep(_handle_code_block(ls, k))
    ELSE IF _is_horizontal_rule(ls[k + 1]) THEN
        [ops |-> <<[insert |-> [divider |-> TRUE]], TextOp(Newline)>>, step |-> 1]
    ELSE
        [ops |-> BlockOps(self,
                          LineBlock(ls[k + 1],
                                    HeaderMatch(ls[k + 1]),
                                    BlockquoteMatch(ls[k + 1]),
                                    UnorderedMatch(ls[k + 1]),
                                    OrderedMatch(ls[k + 1]),
                                    TaskMatch(ls[k + 1]))),
         step |-> 1]

(***************************************************************************)
(* Inputs                                                                  *)
(***************************************************************************)

MaxTok == 3     \* tokens in a generated markdown string
MaxLines == 2   \* lines in a markdown string built from SampleLines
MaxOps == 4     \* operations in a list handed to the normalizer harness

\* Pieces of markdown; a generated input is a concatenation of at most
\* MaxTok of them.
Tokens == {
    <<"a">>, <<" ">>, <<"\n">>,
    <<"*">>, <<"*", "*">>, <<"_">>, <<"~", "~">>, <<Backtick>>,
    <<"[", "a", "]", "(", "u", ")">>, <<"!", "[", "]", "(", "u", ")">>,
    <<"#">>, <<"#", " ">>, <<">">>, <<"-", " ">>, <<"1", ".", " ">>,
    <<"[", "x", "]", " ">>, <<"-">>, Fence }

\* Whole lines; an input is also at most MaxLines of them joined by "\n".
SampleLines == {
    <<>>,
    <<"a">>,
    <<"*", "*", "a", "*", "*">>,
    <<"#", "#", " ", "a">>,
    <<">">>,
    <<" ", " ", "-", " ", "a">>,
    <<"-", " ", "[", " ", "]", " ", "a">>,
    <<"-", " ", "-", " ", "-">>,
    Fence,
    Fence \o <<"p", "y">> }

\* - [x] done\n- [ ] todo
ExChecklist ==
    <<"-", " ", "[", "x", "]", " ", "d", "o", "n", "e", "\n",
      "-", " ", "[", " ", "]", " ", "t", "o", "d", "o">>

\* **bold *and italic***
ExBoldItalic ==
    <<"*", "*", "b", "o", "l", "d", " ", "*", "a", "n", "d", " ",
      "i", "t", "a", "l", "i", "c", "*", "*", "*">>

\* **Hello** *World*   (the docstring example of convert_markdown_to_delta)
ExHelloWorld ==
    <<"*", "*", "H", "e", "l", "l", "o", "*", "*", " ",
      "*", "W", "o", "r", "l", "d", "*">>

\* # Title
ExTitle == <<"#", " ", "T", "i", "t", "l", "e">>

\* - item one\n- item two
ExItems ==
    <<"-", " ", "i", "t", "e", "m", " ", "o", "n", "e", "\n",
      "-", " ", "i", "t", "e", "m", " ", "t", "w", "o">>

\* "**a 'b'**" with the inline-code delimiter in place of the quotes
ExCodeInBold == <<"*", "*", "a", " ", Backtick, "b", Backtick, "*", "*">>

\* "'a *b*'" with the inline-code delimiter in place of the quotes
ExItalicInCode == <<Backtick, "a", " ", "*", "b", "*", Backtick>>

\* A fenced block with the one content line "a"
ExFenced == Fence \o <<"\n", "a", "\n">> \o Fence

\* A fenced block opened with the language py: content lines "# a", "" and
\* "**b**", then a paragraph line
ExFencedPy ==
    Fence \o <<"p", "y", "\n", "#", " ", "a", "\n", "\n", "*", "*", "b", "*", "*", "\n">>
    \o Fence \o <<"\n", "a">>

\* **a *b* c**
ExNestedItalic == <<"*", "*", "a", " ", "*", "b", "*", " ", "c", "*", "*">>

\* ~~**a**~~
ExWholeNested == <<"~", "~", "*", "*", "a", "*", "*", "~", "~">>

\* __a b__
ExUnderBold == <<"_", "_", "a", " ", "b", "_", "_">>

\* [**a**](u)
ExLinkBold == <<"[", "*", "*", "a", "*", "*", "]", "(", "u", ")">>

\* ![a](u)
ExImage == <<"!", "[", "a", "]", "(", "u", ")">>

\* a * b
ExLoneStar == <<"a", " ", "*", " ", "b">>

\* "***a*** b": the bold-italic, the bold and no italic pattern match at 0
ExTripleStar == <<"*", "*", "*", "a", "*", "*", "*", " ", "b">>

\* The inputs the specification and the source's docstring give as examples,
\* and a few more of the same shapes.
Examples == {
    ExChecklist, ExBoldItalic, ExHelloWorld, ExTitle, ExItems,
    ExNestedItalic,
    ExWholeNested,
    ExUnderBold,
    ExLoneStar,
    \* a ~~ [b](u) _ c
    <<"a", " ", "~", "~", " ", "[", "b", "]", "(", "u", ")", " ", "_", " ", "c">>,
    \* *a* * b
    <<"*", "a", "*", " ", "*", " ", "b">>,
    ExLinkBold,
    ExImage,
    \* ![](u) a ![**a**](u)
    <<"!", "[", "]", "(", "u", ")", " ", "a", " ",
      "!", "[", "*", "*", "a", "*", "*", "]", "(", "u", ")">>,
    \* **a __b__ c**
    <<"*", "*", "a", " ", "_", "_", "b", "_", "_", " ", "c", "*", "*">>,
    \* ***a ~~b~~ c***
    <<"*", "*", "*", "a", " ", "~", "~", "b", "~", "~", " ", "c", "*", "*", "*">>,
    \* ####### a
    <<"#", "#", "#", "#", "#", "#", "#", " ", "a">>,
    \* ###### a
    <<"#", "#", "#", "#", "#", "#", " ", "a">>,
    \* "    2. a" (four leading spaces)
    <<" ", " ", " ", " ", "2", ".", " ", "a">>,
    ExCodeInBold, ExItalicInCode, ExFenced, ExFencedPy,
    \* "* * *"
    <<"*", " ", "*", " ", "*">>,
    \* "  _  _ _  _" (leading spaces, uneven gaps)
    <<" ", " ", "_", " ", " ", "_", " ", "_", " ", " ", "_">>,
    \* "- - - --"
    <<"-", " ", "-", " ", "-", " ", "-", "-">>,
    \* "- * -"
    <<"-", " ", "*", " ", "-">>,
    \* "* - -"
    <<"*", " ", "-", " ", "-">>,
    \* "-----"
    <<"-", "-", "-", "-", "-">>,
    ExTripleStar,
    \* "___a___ **b** *c* [a](u)"
    <<"_", "_", "_", "a", "_", "_", "_", " ", "*", "*", "b", "*", "*", " ",
      "*", "c", "*", " ", "[", "a", "]", "(", "u", ")">> }

SeqsUpTo(S, n) == UNION {[1..k -> S] : k \in 0..n}

Inputs ==
    Examples
    \cup {Flatten(ts) : ts \in SeqsUpTo(Tokens, MaxTok)}
    \cup {Join(ls) : ls \in SeqsUpTo(SampleLines, MaxLines) \ {<<>>}}

\* Operations the normalizer harness builds its argument lists from.
SampleOps == {
    TextOp(<<>>), TextOp(<<"a">>), TextOp(Newline),
    AttrOp(<<>>, [bold |-> TRUE]), AttrOp(<<"a">>, [bold |-> TRUE]),
    AttrOp(<<"a">>, NoAttrs), AttrOp(<<>>, NoAttrs),
    AttrOp(Newline, [header |-> 1]),
    [insert |-> [divider |-> TRUE]],
    [insert |-> [image |-> <<"u">>], attributes |-> NoAttrs] }

(***************************************************************************)
(* convert(markdown)                                                       *)
(***************************************************************************)

Init ==
    /\ markdown \in Inputs
    /\ lines = <<>>
    /\ i = 0
    /\ line = <<>>
    /\ emitted = <<>>
    /\ ops = <<>>
    /\ pc = "convert"
    /\ result = [ops |-> <<>>]
    /\ arg = <<>>
    /\ ret = <<>>
    /\ calls = 0
    /\ converter = MarkdownToDelta
    /\ returned = <<>>
    /\ threads = <<>>
    /\ OthersIdle

\* Mutant of Enter: the empty-input check is missing.
EnterNoEmptyCheck ==
    /\ pc = "convert"
    /\ ops' = <<>>
    /\ lines' = Split(markdown)
    /\ i' = 0
    /\ pc' = "scan"
    /\ UNCHANGED <<markdown, line, emitted, result, arg, ret, calls, outside>>

\* Mutant of Enter: the accumulator is not a fresh list but what the
\* previous call on the instance left.
EnterKeepsOps ==
    /\ pc = "convert"
    /\ IF markdown = <<>>
       THEN /\ result' = [ops |-> <<>>]
            /\ pc' = "done"
            /\ UNCHANGED <<lines, i, ops>>
       ELSE /\ ops' = ops
            /\ lines' = Split(markdown)
            /\ i' = 0
            /\ pc' = "scan"
            /\ UNCHANGED result
    /\ UNCHANGED <<markdown, line, emitted, arg, ret, calls, outside>>

\* "if not markdown: return {'ops': []}", else the set-up of the loop.
Enter ==
    /\ pc = "convert"
    /\ IF markdown = <<>>
       THEN /\ result' = [ops |-> <<>>]
            /\ pc' = "done"
            /\ UNCHANGED <<lines, i, ops>>
       ELSE /\ ops' = <<>>
            /\ lines' = Split(markdown)
            /\ i' = 0
            /\ pc' = "scan"
            /\ UNCHANGED result
    /\ UNCHANGED <<markdown, line, emitted, arg, ret, calls, outside>>

\* One iteration of "while i < len(lines)".
ScanLine ==
    /\ pc = "scan"
    /\ i < Len(lines)
    /\ \E step \in {ScanStep(converter, lines, i)} :
           /\ line' = lines[i + 1]
           /\ emitted' = step.ops
           /\ ops' = ops \o step.ops
           /\ i' = i + step.step
    /\ UNCHANGED <<markdown, lines, pc, result, arg, ret, calls, outside>>

\* Loop exit: "ops = self._cleanup_ops(ops)" and "return {'ops': ops}".
Finish ==
    /\ pc = "scan"
    /\ ~(i < Len(lines))
    /\ arg' = ArgAfterCleanup(ops)
    /\ ret' = _cleanup_ops(ops)
    /\ calls' = calls + 1
    /\ ops' = ret'
    /\ result' = [ops |-> ret']
    /\ pc' = "done"
    /\ UNCHANGED <<markdown, lines, i, line, emitted, outside>>

Next == Enter \/ ScanLine \/ Finish

Spec == Init /\ [][Next]_vars

\* convert runs to its return: the call is a single thread that keeps taking
\* its next step.  The second fairness condition is WF_vars(ScanLine \/ Finish)
\* with ENABLED <<ScanLine \/ Finish>>_vars written out: one of the two is
\* enabled exactly when the call is in its loop (pc = "scan").
SpecFair ==
    /\ Init
    /\ [][Next]_vars
    /\ WF_vars(Enter)
    /\ ([]<>(pc # "scan") \/ []<><<ScanLine \/ Finish>>_vars)

(***************************************************************************)
(* The normalizer on its own: normalize(normalize(ops))                    *)
(***************************************************************************)

InitNorm ==
    /\ arg \in SeqsUpTo(SampleOps, MaxOps)
    /\ ret = <<>>
    /\ calls = 0
    /\ pc = "normalize"
    /\ markdown = <<>>
    /\ lines = <<>>
    /\ i = 0
    /\ line = <<>>
    /\ emitted = <<>>
    /\ ops = <<>>
    /\ result = [ops |-> <<>>]
    /\ converter = MarkdownToDelta
    /\ returned = <<>>
    /\ threads = <<>>
    /\ OthersIdle

\* _cleanup_ops called on the harness's list the first time, on the value
\* the previous call returned after that.
Normalize ==
    /\ pc = "normalize"
    /\ calls < 2
    /\ \E given \in {IF calls = 0 THEN arg ELSE ret} :
           /\ ret' = _cleanup_ops(given)
           /\ arg' = ArgAfterCleanup(given)
    /\ calls' = calls + 1
    /\ UNCHANGED <<markdown, lines, i, line, emitted, ops, pc, result, outside>>

NextNorm == Normalize

SpecNorm == InitNorm /\ [][NextNorm]_vars

(***************************************************************************)
(* convert as a function of the instance and the argument                  *)
(***************************************************************************)

RECURSIVE ScanFrom(_, _, _)

\* The operations of an iteration, then those of the iterations after it.
ScanRest(step, self, ls, k) == step.ops \o ScanFrom(self, ls, k + step.step)

\* The while loop of convert from cursor k on: everything appended to ops.
ScanFrom(self, ls, k) ==
    IF ~(k < Len(ls)) THEN <<>>
    ELSE ScanRest(ScanStep(self, ls, k), self, ls, k)

\* self.convert(markdown), run on its own from entry to return.
convert(self, md) ==
    IF md = <<>> THEN [ops |-> <<>>]
    ELSE [ops |-> _cleanup_ops(ScanFrom(self, Split(md), 0))]

(***************************************************************************)
(* Several convert calls at once on one shared instance                    *)
(***************************************************************************)

MaxCallers == 2   \* concurrent calls

Callers == 1..MaxCallers

\* What the concurrent callers convert.
ConcInputs == {
    <<>>,
    <<"a">>,
    <<"*", "*", "a", "*", "*", "\n", "#", " ", "a">>,
    Fence \o <<"\n", "a", "\n">> \o Fence,
    <<"-", " ", "a", "\n", "1", ".", " ", "*", "a", "*">>,
    <<"!", "[", "a", "]", "(", "u", ")">> }

\* The locals of a call that has just been entered.
Locals(md) ==
    [markdown |-> md, lines |-> <<>>, i |-> 0, ops |-> <<>>,
     pc |-> "convert", result |-> [ops |-> <<>>]]

InitConc ==
    /\ threads \in [Callers -> {Locals(md) : md \in ConcInputs}]
    /\ converter = MarkdownToDelta
    /\ returned = <<>>
    /\ pc = "threads"
    /\ markdown = <<>>
    /\ lines = <<>>
    /\ i = 0
    /\ line = <<>>
    /\ emitted = <<>>
    /\ ops = <<>>
    /\ result = [ops |-> <<>>]
    /\ arg = <<>>
    /\ ret = <<>>
    /\ calls = 0
    /\ OthersIdle

single == <<markdown, lines, i, line, emitted, ops, pc, result, arg, ret, calls>>

\* Enter, by caller t.
ThreadEnter(t) ==
    /\ threads[t].pc = "convert"
    /\ threads' = [threads EXCEPT ![t] =
          IF threads[t].markdown = <<>>
          THEN [threads[t] EXCEPT !.result = [ops |-> <<>>], !.pc = "done"]
          ELSE [threads[t] EXCEPT !.ops = <<>>,
                                  !.lines = Split(threads[t].markdown),
                                  !.i = 0,
                                  !.pc = "scan"]]
    /\ UNCHANGED <<single, converter, returned, others>>

\* Mutant of ThreadScan: the accumulator is a field of the shared instance,
\* so what one call appends reaches the accumulator of every call.
ThreadScanSharedOps(t) ==
    /\ threads[t].pc = "scan"
    /\ threads[t].i < Len(threads[t].lines)
    /\ \E step \in {ScanStep(converter, threads[t].lines, threads[t].i)} :
           threads' = [u \in Callers |->
              [threads[u] EXCEPT !.ops = threads[u].ops \o step.ops,
                                 !.i = IF u = t THEN threads[u].i + step.step
                                                ELSE threads[u].i]]
    /\ UNCHANGED <<single, converter, returned, others>>

\* ScanLine, by caller t: the pattern table is read from the shared instance.
ThreadScan(t) ==
    /\ threads[t].pc = "scan"
    /\ threads[t].i < Len(threads[t].lines)
    /\ \E step \in {ScanStep(converter, threads[t].lines, threads[t].i)} :
           threads' = [threads EXCEPT ![t] =
              [threads[t] EXCEPT !.ops = threads[t].ops \o step.ops,
                                 !.i = threads[t].i + step.step]]
    /\ UNCHANGED <<single, converter, returned, others>>

\* Finish, by caller t.
ThreadFinish(t) ==
    /\ threads[t].pc = "scan"
    /\ ~(threads[t].i < Len(threads[t].lines))
    /\ threads' = [threads EXCEPT ![t] =
          [threads[t] EXCEPT !.ops = _cleanup_ops(threads[t].ops),
                             !.result = [ops |-> _cleanup_ops(threads[t].ops)],
                             !.pc = "done"]]
    /\ UNCHANGED <<single, converter, returned, others>>

NextConc == \E t \in Callers : ThreadEnter(t) \/ ThreadScan(t) \/ ThreadFinish(t)

SpecConc == InitConc /\ [][NextConc]_vars

(***************************************************************************)
(* One convert call after another on the same instance                     *)
(***************************************************************************)

MaxCalls == 3   \* convert calls made on the instance

\* What the successive calls convert.
SeqInputs == ConcInputs \cup {<<"a", "\n", "a">>, ExCodeInBold}

InitSeq ==
    /\ markdown \in SeqInputs
    /\ lines = <<>>
    /\ i = 0
    /\ line = <<>>
    /\ emitted = <<>>
    /\ ops = <<>>
    /\ pc = "convert"
    /\ result = [ops |-> <<>>]
    /\ arg = <<>>
    /\ ret = <<>>
    /\ calls = 0
    /\ converter = MarkdownToDelta
    /\ returned = <<>>
    /\ threads = <<>>
    /\ OthersIdle

\* The caller keeps the result of the call that returned and calls convert
\* again on the same instance; whatever the last call left in its locals is
\* still there.
Call ==
    /\ pc = "done"
    /\ Len(returned) < MaxCalls - 1
    /\ returned' = Append(returned, [markdown |-> markdown, result |-> result])
    /\ markdown' \in SeqInputs
    /\ pc' = "convert"
    /\ UNCHANGED <<lines, i, line, emitted, ops, result, arg, ret, calls,
                   converter, threads, others>>

NextSeq == Call \/ Enter \/ ScanLine \/ Finish

SpecSeq == InitSeq /\ [][NextSeq]_vars

(***************************************************************************)
(* find_speaker_optimized(word_start, word_end, segments, start_times)     *)
(* Times are whole numbers of a time unit; segment indices are 0-based.    *)
(***************************************************************************)

\* The converter takes no step in the specifications of the other programs.
ConverterIdle ==
    /\ markdown = <<>>
    /\ lines = <<>>
    /\ i = 0
    /\ line = <<>>
    /\ emitted = <<>>
    /\ ops = <<>>
    /\ result = [ops |-> <<>>]
    /\ arg = <<>>
    /\ ret = <<>>
    /\ calls = 0
    /\ converter = MarkdownToDelta
    /\ returned = <<>>
    /\ threads = <<>>

converter_vars == <<markdown, lines, i, line, emitted, ops, result, arg, ret,
                    calls, converter, returned, threads>>

MaxTime == 4
MaxSegments == 2

Speakers == {"SPEAKER_00", "SPEAKER_01"}

\* The diarization segments an input list is made of.
SegmentValues ==
    {[start |-> a, end |-> b, speaker |-> sp] :
        a \in 0..(MaxTime - 1), b \in 1..MaxTime, sp \in Speakers}

\* Lists as transcribe_conversation passes them: sorted by start.
SegmentLists ==
    {sl \in SeqsUpTo({sg \in SegmentValues : sg.start < sg.end}, MaxSegments) :
        \A k \in 1..(Len(sl) - 1) : sl[k].start <= sl[k + 1].start}

\* bisect.bisect_right(a, x) for a sorted list a: the number of its elements <= x.
bisect_right(a, x) == Cardinality({k \in 1..Len(a) : a[k] <= x})

Max2(x, y) == IF x >= y THEN x ELSE y
Min2(x, y) == IF x <= y THEN x ELSE y

\* "overlap = max(0, overlap_end - overlap_start)"
Overlap(ws, we, segment) ==
    Max2(0, Min2(we, segment.end) - Max2(ws, segment.start))

InitFindSpeaker ==
    /\ diarization_segments \in SegmentLists
    /\ diarization_start_times =
          [k \in 1..Len(diarization_segments) |-> diarization_segments[k].start]
    /\ word_start \in 0..MaxTime
    /\ word_end \in word_start..MaxTime
    /\ idx = 0
    /\ max_overlap = 0
    /\ assigned_speaker = "UNKNOWN"
    /\ pc = "find_speaker"
    /\ ConverterIdle
    /\ TranscribeApiIdle
    /\ CreateConversationIdle

\* The statements before the loop.
FindEnter ==
    /\ pc = "find_speaker"
    /\ idx' = Max2(0, bisect_right(diarization_start_times, word_start) - 1)
    /\ max_overlap' = 0
    /\ assigned_speaker' = "UNKNOWN"
    /\ pc' = "find_loop"
    /\ UNCHANGED <<word_start, word_end, diarization_segments, diarization_start_times,
                   converter_vars, transcribe_api_vars, create_conversation_vars>>

\* "while idx < len(segments) and segments[idx]['start'] < word_end"
FindLoopCondition ==
    idx < Len(diarization_segments) /\ diarization_segments[idx + 1].start < word_end

\* One iteration of the loop, the early exit at its end included.
FindIterate ==
    /\ pc = "find_loop"
    /\ FindLoopCondition
    /\ IF Overlap(word_start, word_end, diarization_segments[idx + 1]) > max_overlap
       THEN /\ max_overlap' = Overlap(word_start, word_end, diarization_segments[idx + 1])
            /\ assigned_speaker' = diarization_segments[idx + 1].speaker
       ELSE UNCHANGED <<max_overlap, assigned_speaker>>
    /\ idx' = idx + 1
    /\ pc' = IF /\ idx + 1 < Len(diarization_segments)
                /\ diarization_segments[idx + 2].start >= word_end
             THEN "find_done" ELSE "find_loop"
    /\ UNCHANGED <<word_start, word_end, diarization_segments, diarization_start_times,
                   converter_vars, transcribe_api_vars, create_conversation_vars>>

\* The loop condition is false: "return assigned_speaker".
FindReturn ==
    /\ pc = "find_loop"
    /\ ~FindLoopCondition
    /\ pc' = "find_done"
    /\ UNCHANGED <<find_speaker_vars, converter_vars, transcribe_api_vars,
                   create_conversation_vars>>

NextFindSpeaker == FindEnter \/ FindIterate \/ FindReturn

SpecFindSpeaker == InitFindSpeaker /\ [][NextFindSpeaker]_vars

(***************************************************************************)
(* transcribe-api: load_models_background, /health, /transcribe            *)
(* load_models_background is a coroutine without an await: once the event  *)
(* loop has started it, no request is handled before it has finished.      *)
(***************************************************************************)

MaxRequests == 3

InitTranscribeApi ==
    /\ TranscribeApiIdle
    /\ pc = "startup"
    /\ ConverterIdle
    /\ FindSpeakerIdle
    /\ CreateConversationIdle

transcribe_api_frame == <<converter_vars, find_speaker_vars, create_conversation_vars>>

\* The task created by lifespan starts: "models_loading = True".
LoadStart ==
    /\ pc = "startup"
    /\ models_loading' = TRUE
    /\ pc' = "load_whisper"
    /\ UNCHANGED <<whisper_model, pyannote_pipeline, models_loaded, responses,
                   transcribe_api_frame>>

\* "whisper_model = whisper.load_model(...)", which returns or raises.
LoadWhisper ==
    /\ pc = "load_whisper"
    /\ \/ whisper_model' = "loaded" /\ pc' = "load_pipeline"
       \/ UNCHANGED whisper_model /\ pc' = "except"
    /\ UNCHANGED <<pyannote_pipeline, models_loading, models_loaded, responses,
                   transcribe_api_frame>>

\* "pyannote_pipeline = Pipeline.from_pretrained(...)", which returns or raises.
LoadPipeline ==
    /\ pc = "load_pipeline"
    /\ \/ pyannote_pipeline' = "loaded" /\ pc' = "to_device"
       \/ UNCHANGED pyannote_pipeline /\ pc' = "except"
    /\ UNCHANGED <<whisper_model, models_loading, models_loaded, responses,
                   transcribe_api_frame>>

\* "pyannote_pipeline.to(torch.device('cuda'))", which returns or raises.
PipelineToDevice ==
    /\ pc = "to_device"
    /\ pc' \in {"set_loaded", "except"}
    /\ UNCHANGED <<transcribe_api_vars, transcribe_api_frame>>

\* "models_loaded = True"
SetLoaded ==
    /\ pc = "set_loaded"
    /\ models_loaded' = TRUE
    /\ pc' = "finally"
    /\ UNCHANGED <<whisper_model, pyannote_pipeline, models_loading, responses,
                   transcribe_api_frame>>

\* "except Exception as e: print(...)"
LoadExcept ==
    /\ pc = "except"
    /\ pc' = "finally"
    /\ UNCHANGED <<transcribe_api_vars, transcribe_api_frame>>

\* "finally: models_loading = False"; the task is finished.
LoadFinally ==
    /\ pc = "finally"
    /\ models_loading' = FALSE
    /\ pc' = "serving"
    /\ UNCHANGED <<whisper_model, pyannote_pipeline, models_loaded, responses,
                   transcribe_api_frame>>

\* A request is handled before the loading task has started or after it
\* has finished.
Handling == pc \in {"startup", "serving"} /\ Len(responses) < MaxRequests

\* What a handler returned, with the flags as they were when it ran.
Response(kind) ==
    [kind |-> kind, models_loaded |-> models_loaded, models_loading |-> models_loading]

\* GET /health
health_check ==
    /\ Handling
    /\ responses' = Append(responses, Response("health"))
    /\ UNCHANGED <<whisper_model, pyannote_pipeline, models_loading, models_loaded,
                   pc, transcribe_api_frame>>

\* What the try block of transcribe_audio can end in: with a global that is
\* None the call on it raises; with both set, the calls return or raise.
TranscribeOutcomes ==
    IF whisper_model # "None" /\ pyannote_pipeline # "None"
    THEN {"transcript", "error"}
    ELSE {"error"}

\* POST /transcribe
transcribe_audio ==
    /\ Handling
    /\ \E kind \in TranscribeOutcomes :
           responses' = Append(responses, Response(kind))
    /\ UNCHANGED <<whisper_model, pyannote_pipeline, models_loading, models_loaded,
                   pc, transcribe_api_frame>>

NextTranscribeApi ==
    \/ LoadStart \/ LoadWhisper \/ LoadPipeline \/ PipelineToDevice
    \/ SetLoaded \/ LoadExcept \/ LoadFinally
    \/ health_check \/ transcribe_audio

SpecTranscribeApi == InitTranscribeApi /\ [][NextTranscribeApi]_vars

(***************************************************************************)
(* create_conversation(customer_id)                                        *)
(* Requests are handled one after the other; every call into the request,  *)
(* the file system, Storage or Firestore returns or raises.                *)
(***************************************************************************)

InitCreateConversation ==
    /\ CreateConversationIdle
    /\ pc = "cc_idle"
    /\ ConverterIdle
    /\ FindSpeakerIdle
    /\ TranscribeApiIdle

create_conversation_frame == <<converter_vars, find_speaker_vars, transcribe_api_vars>>

\* The request being handled, which also names its storage file and the
\* document id Firestore generates for it.
RequestId == Len(replies) + 1

\* A request arrives: the locals of the call are unbound.
CcBegin ==
    /\ pc = "cc_idle"
    /\ Len(replies) < MaxRequests
    /\ conversation_doc_ref' = Unbound
    /\ pc' = "cc_read"
    /\ UNCHANGED <<conversations, storage, replies, create_conversation_frame>>

\* request.user, int(request_form.get("duration")), request.files["file"],
\* firestore.client()
CcReadRequest ==
    /\ pc = "cc_read"
    /\ pc' \in {"cc_save", "cc_except"}
    /\ UNCHANGED <<create_conversation_vars, create_conversation_frame>>

\* save_file_to_tmp(audio_file)
CcSaveTmp ==
    /\ pc = "cc_save"
    /\ pc' \in {"cc_upload", "cc_except"}
    /\ UNCHANGED <<create_conversation_vars, create_conversation_frame>>

\* upload_to_storage(local_tmp_file_path, storage_file_path)
CcUpload ==
    /\ pc = "cc_upload"
    /\ \/ storage' = storage \cup {RequestId} /\ pc' = "cc_ref"
       \/ UNCHANGED storage /\ pc' = "cc_except"
    /\ UNCHANGED <<conversations, conversation_doc_ref, replies, create_conversation_frame>>

\* conversation_doc_ref = firestore_client.collection("conversations").document()
CcDocumentRef ==
    /\ pc = "cc_ref"
    /\ conversation_doc_ref' = RequestId
    /\ pc' = "cc_set"
    /\ UNCHANGED <<conversations, storage, replies, create_conversation_frame>>

\* conversation_doc_ref.set(conversation_json): the document is written, or
\* the call raises, with the write done or not.
CcSet ==
    /\ pc = "cc_set"
    /\ \/ conversations' = conversations \cup {conversation_doc_ref} /\ pc' = "cc_get"
       \/ /\ conversations' \in {conversations, conversations \cup {conversation_doc_ref}}
          /\ pc' = "cc_except"
    /\ UNCHANGED <<conversation_doc_ref, storage, replies, create_conversation_frame>>

\* conversation_doc_ref.get(...), to_dict(), get("createdAt").isoformat()
CcGet ==
    /\ pc = "cc_get"
    /\ pc' \in {"cc_return", "cc_except"}
    /\ UNCHANGED <<create_conversation_vars, create_conversation_frame>>

\* How a request ended: a JSON body with a status, or an exception that
\* left the handler.
Reply(kind, status) == [kind |-> kind, status |-> status, request |-> RequestId]

\* return jsonify(conversation_json), 201
CcReturn ==
    /\ pc = "cc_return"
    /\ replies' = Append(replies, Reply("created", 201))
    /\ pc' = "cc_idle"
    /\ UNCHANGED <<conversations, conversation_doc_ref, storage, create_conversation_frame>>

\* "except Exception as e: conversation_doc_ref.delete()" and the lines after
\* it.  Reading the local before its assignment raises UnboundLocalError,
\* and delete() itself returns or raises; an exception raised here leaves
\* the handler.
CcExcept ==
    /\ pc = "cc_except"
    /\ IF conversation_doc_ref = Unbound
       THEN /\ replies' = Append(replies, Reply("exception", 0))
            /\ UNCHANGED conversations
       ELSE \/ /\ conversations' = conversations \ {conversation_doc_ref}
               /\ replies' = Append(replies, Reply("error", 500))
            \/ /\ UNCHANGED conversations
               /\ replies' = Append(replies, Reply("exception", 0))
    /\ pc' = "cc_idle"
    /\ UNCHANGED <<conversation_doc_ref, storage, create_conversation_frame>>

NextCreateConversation ==
    \/ CcBegin \/ CcReadRequest \/ CcSaveTmp \/ CcUpload \/ CcDocumentRef
    \/ CcSet \/ CcGet \/ CcReturn \/ CcExcept

SpecCreateConversation == InitCreateConversation /\ [][NextCreateConversation]_vars

(***************************************************************************)
(* Properties                                                              *)
(***************************************************************************)

\* Number of "\n" characters in a text.
NewlineCount(text) == Cardinality({k \in 1..Len(text) : text[k] = "\n"})

\* Number of "\n" characters in the string inserts of a list of operations.
RECURSIVE NewlineChars(_)
NewlineChars(oplist) ==
    IF oplist = <<>> THEN 0
    ELSE (IF IsStr(Head(oplist)) THEN NewlineCount(Head(oplist).insert.text) ELSE 0)
         + NewlineChars(Tail(oplist))

\* Characters that take part in an inline pattern.
InlineMarkers == {"*", "_", "~", Backtick, "[", "]", "(", ")", "!"}

\* No block classifier of the scanner matches the line.
NoBlockClassifier(ln) ==
    /\ ~IsFenceOpen(ln)
    /\ ~_is_horizontal_rule(ln)
    /\ ~HeaderMatch(ln).ok
    /\ ~BlockquoteMatch(ln).ok
    /\ ~UnorderedMatch(ln).ok
    /\ ~OrderedMatch(ln).ok
    /\ ~TaskMatch(ln).ok

\* A single non-blank line that is a plain paragraph without marker characters.
PlainParagraph(md) ==
    /\ \A k \in 1..Len(md) : md[k] \notin InlineMarkers \cup {"\n"}
    /\ Strip(md) # <<>>
    /\ NoBlockClassifier(md)

\* C1: a line of the checklist form (marker, whitespace, [ ] / [x] / [X],
\* whitespace, content) is terminated by a newline insert whose list
\* attribute is "checked" or "unchecked" according to the mark, and the
\* operations before it are the inline-resolved content without the mark.
\* The code tries the unordered-list pattern first, so this fails.
C1_ChecklistTagged ==
    TaskMatch(line).ok =>
        /\ emitted # <<>>
        /\ emitted[Len(emitted)] =
              AttrOp(Newline, [list |-> IF TaskMatch(line).mark \in {"x", "X"}
                                        THEN "checked" ELSE "unchecked"])
        /\ SubSeq(emitted, 1, Len(emitted) - 1) = _parse_inline(MarkdownToDelta, TaskMatch(line).content)

\* C2 (as stated): convert of a plain single-line paragraph s returns the two
\* operations {insert: s} and {insert: "\n"}.
C2_PlainParagraphTwoOps ==
    (pc = "done" /\ PlainParagraph(markdown)) =>
        result.ops = <<TextOp(markdown), TextOp(Newline)>>

\* C2 (amended): convert of a plain single-line paragraph s returns the one
\* operation {insert: s + "\n"}: the normalizer merges the text insert and
\* the untagged newline insert that follows it.
C2_PlainParagraphMerged ==
    (pc = "done" /\ PlainParagraph(markdown)) =>
        result.ops = <<TextOp(markdown \o Newline)>>

C2_Witness ==
    /\ pc = "done"
    /\ PlainParagraph(markdown)
    /\ Len(markdown) >= 3
    /\ result.ops = <<TextOp(markdown \o Newline)>>

\* C3: the output for **bold *and italic*** holds an insert "bold " with
\* exactly {bold} directly followed by an insert "and italic" with
\* {bold, italic}.  The code returns "bold *and italic" {bold} and "*\n".
C3_NestedItalicInBold ==
    (pc = "done" /\ markdown = ExBoldItalic) =>
        \E k \in 1..(Len(result.ops) - 1) :
            /\ result.ops[k] = AttrOp(<<"b", "o", "l", "d", " ">>, [bold |-> TRUE])
            /\ result.ops[k + 1] =
                  AttrOp(<<"a", "n", "d", " ", "i", "t", "a", "l", "i", "c">>,
                         [bold |-> TRUE, italic |-> TRUE])

\* C4 (as stated): for a non-empty input the number of output operations that
\* are newline terminated string inserts equals the number of input lines.
C4_TerminatorOpsEqualLines ==
    (pc = "done" /\ markdown # <<>>) =>
        Cardinality({k \in 1..Len(result.ops) :
                        /\ IsStr(result.ops[k])
                        /\ result.ops[k].insert.text # <<>>
                        /\ result.ops[k].insert.text[Len(result.ops[k].insert.text)] = "\n"})
            = NewlineCount(markdown) + 1

\* C4 (amended): for a non-empty input without a fence line, the number of
\* "\n" characters in the string inserts of the output equals the number
\* of input lines (the operations are fewer when untagged newlines are
\* merged with the unattributed text around them).
C4_NewlineCharsEqualLines ==
    (/\ pc = "done"
     /\ markdown # <<>>
     /\ \A k \in 1..Len(lines) : ~IsFenceOpen(lines[k])) =>
        NewlineChars(result.ops) = NewlineCount(markdown) + 1

C4_Witness ==
    /\ pc = "done"
    /\ NewlineCount(markdown) >= 1
    /\ \A k \in 1..Len(lines) : ~IsFenceOpen(lines[k])
    /\ Len(result.ops) < Len(lines)
    /\ NewlineChars(result.ops) = NewlineCount(markdown) + 1

\* C5: convert("") returns {ops: []}, without any newline insert.
C5_EmptyInputEmptyOps ==
    (pc = "done" /\ markdown = <<>>) => result = [ops |-> <<>>]

C5_Witness == pc = "done" /\ markdown = <<>> /\ result.ops = <<>>

\* A non-blank line that no block classifier matches.
IsParagraphLine(ln) == NoBlockClassifier(ln) /\ Strip(ln) # <<>>

\* The inline operations end in a formatted span.
EndsInFormattedSpan(inline_ops) ==
    inline_ops # <<>> /\ HasAttributes(inline_ops[Len(inline_ops)])

\* The first input line is a paragraph line that ends in a formatted span.
FirstLineFormatted ==
    /\ pc = "done"
    /\ lines # <<>>
    /\ IsParagraphLine(lines[1])
    /\ EndsInFormattedSpan(_parse_inline(MarkdownToDelta, lines[1]))

HelloWorldOps ==
    << AttrOp(<<"H", "e", "l", "l", "o">>, [bold |-> TRUE]),
       TextOp(<<" ">>),
       AttrOp(<<"W", "o", "r", "l", "d">>, [italic |-> TRUE]),
       TextOp(Newline) >>

\* C6 (as stated): when a paragraph line ends in a formatted span, the
\* operations of the line come out unmerged and the operation after the
\* span is the insert "\n" on its own.  Stated for the first line of the
\* input, whose operations start the output.
C6_NewlineOwnInsert ==
    FirstLineFormatted =>
        /\ Len(result.ops) > Len(_parse_inline(MarkdownToDelta, lines[1]))
        /\ SubSeq(result.ops, 1, Len(_parse_inline(MarkdownToDelta, lines[1]))) = _parse_inline(MarkdownToDelta, lines[1])
        /\ result.ops[Len(_parse_inline(MarkdownToDelta, lines[1])) + 1] = TextOp(Newline)

\* C6 (amended): convert("**Hello** *World*") is the four operations of the
\* docstring; when a paragraph line ends in a formatted span, its inline
\* operations come out unmerged (plain text between two spans is its own
\* unattributed insert) and its "\n" is never merged into the span: it
\* starts an unattributed string insert directly after the span, which is
\* "\n" alone when the line is the last one and otherwise may go on with the
\* unattributed text of the following lines.
C6_NewlineAfterSpan ==
    /\ (pc = "done" /\ markdown = ExHelloWorld) => result.ops = HelloWorldOps
    /\ FirstLineFormatted =>
        /\ Len(result.ops) > Len(_parse_inline(MarkdownToDelta, lines[1]))
        /\ SubSeq(result.ops, 1, Len(_parse_inline(MarkdownToDelta, lines[1]))) = _parse_inline(MarkdownToDelta, lines[1])
        /\ IsStr(result.ops[Len(_parse_inline(MarkdownToDelta, lines[1])) + 1])
        /\ ~HasAttributes(result.ops[Len(_parse_inline(MarkdownToDelta, lines[1])) + 1])
        /\ result.ops[Len(_parse_inline(MarkdownToDelta, lines[1])) + 1].insert.text[1] = "\n"
        /\ Len(lines) = 1 =>
              /\ Len(result.ops) = Len(_parse_inline(MarkdownToDelta, lines[1])) + 1
              /\ result.ops[Len(result.ops)] = TextOp(Newline)
    /\ (/\ pc = "done"
        /\ IsParagraphLine(line)
        /\ Len(emitted) >= 2
        /\ HasAttributes(emitted[Len(emitted) - 1])) =>
            /\ Len(result.ops) >= 2
            /\ result.ops[Len(result.ops) - 1] = emitted[Len(emitted) - 1]
            /\ result.ops[Len(result.ops)] = TextOp(Newline)

\* A two-line input whose first line ends in a span and whose newline was
\* merged with the text of the second line.
C6_Witness ==
    /\ FirstLineFormatted
    /\ Len(lines) = 2
    /\ Len(result.ops[Len(_parse_inline(MarkdownToDelta, lines[1])) + 1].insert.text) >= 2

\* Leading '#' characters of a line, and the offset where the whitespace
\* after them ends.
HashRun(ln) == Span(ln, 0, {"#"})
AfterHashes(ln) == Span(ln, HashRun(ln), Whitespace)

\* k leading '#' with 1 <= k <= 6, then whitespace, then non-empty content.
HeaderForm(ln) ==
    /\ HashRun(ln) \in 1..6
    /\ AfterHashes(ln) > HashRun(ln)
    /\ AfterHashes(ln) < Len(ln)

\* C7: a line of k leading '#' (1 <= k <= 6), whitespace and content emits
\* the inline-resolved content and then a newline insert tagged header: k;
\* a header attribute of the output is always in 1..6; a line with 7 or
\* more '#', or with no whitespace after the '#' run, is a paragraph.
C7_Header ==
    /\ HeaderForm(line) =>
          emitted = _parse_inline(MarkdownToDelta, Slice(line, AfterHashes(line), Len(line)))
                    \o <<AttrOp(Newline, [header |-> HashRun(line)])>>
    /\ (HashRun(line) >= 7 \/ (HashRun(line) >= 1 /\ AfterHashes(line) = HashRun(line))) =>
          emitted = _parse_inline(MarkdownToDelta, line) \o <<TextOp(Newline)>>
    /\ \A k \in 1..Len(result.ops) :
          (HasAttributes(result.ops[k]) /\ "header" \in DOMAIN result.ops[k].attributes) =>
              result.ops[k].attributes.header \in 1..6
    /\ (pc = "done" /\ markdown = ExTitle) =>
          result.ops = << TextOp(<<"T", "i", "t", "l", "e">>),
                          AttrOp(Newline, [header |-> 1]) >>

C7_Witness ==
    /\ pc = "done"
    /\ HeaderForm(line)
    /\ HashRun(line) >= 2
    /\ result.ops[Len(result.ops)] = AttrOp(Newline, [header |-> HashRun(line)])

\* Leading whitespace of a line.
LeadWs(ln) == Span(ln, 0, Whitespace)

\* w whitespace characters, a '-', '*' or '+', whitespace, non-empty content.
UnorderedForm(ln) ==
    /\ At(ln, LeadWs(ln)) \in {"-", "*", "+"}
    /\ Span(ln, LeadWs(ln) + 1, Whitespace) > LeadWs(ln) + 1
    /\ Span(ln, LeadWs(ln) + 1, Whitespace) < Len(ln)

\* w whitespace characters, digits, '.', whitespace, non-empty content.
OrderedForm(ln) ==
    /\ Span(ln, LeadWs(ln), Digits) > LeadWs(ln)
    /\ At(ln, Span(ln, LeadWs(ln), Digits)) = "."
    /\ Span(ln, Span(ln, LeadWs(ln), Digits) + 1, Whitespace)
          > Span(ln, LeadWs(ln), Digits) + 1
    /\ Span(ln, Span(ln, LeadWs(ln), Digits) + 1, Whitespace) < Len(ln)

\* C8: the newline insert that ends a list-item line with w leading
\* whitespace characters carries list: "bullet" (marker - * +) or
\* list: "ordered" (digits and '.'), and the key indent exactly when
\* w \div 2 > 0, with that value; the two-item example has no indent key.
\* (A line that is a horizontal rule, such as "- - -", is not a list item.)
C8_ListItem ==
    /\ ((UnorderedForm(line) \/ OrderedForm(line)) /\ ~_is_horizontal_rule(line)) =>
          /\ emitted # <<>>
          /\ IsStr(emitted[Len(emitted)])
          /\ emitted[Len(emitted)].insert.text = Newline
          /\ HasAttributes(emitted[Len(emitted)])
          /\ DOMAIN emitted[Len(emitted)].attributes \subseteq {"list", "indent"}
          /\ "list" \in DOMAIN emitted[Len(emitted)].attributes
          /\ emitted[Len(emitted)].attributes.list
                = (IF UnorderedForm(line) THEN "bullet" ELSE "ordered")
          /\ ("indent" \in DOMAIN emitted[Len(emitted)].attributes)
                <=> (LeadWs(line) \div 2 > 0)
          /\ ("indent" \in DOMAIN emitted[Len(emitted)].attributes) =>
                emitted[Len(emitted)].attributes.indent = LeadWs(line) \div 2
    /\ (pc = "done" /\ markdown = ExItems) =>
          result.ops = << TextOp(<<"i", "t", "e", "m", " ", "o", "n", "e">>),
                          AttrOp(Newline, [list |-> "bullet"]),
                          TextOp(<<"i", "t", "e", "m", " ", "t", "w", "o">>),
                          AttrOp(Newline, [list |-> "bullet"]) >>

C8_Witness ==
    /\ pc = "done"
    /\ OrderedForm(line)
    /\ LeadWs(line) = 4
    /\ result.ops[Len(result.ops)] = AttrOp(Newline, [list |-> "ordered", indent |-> 2])

\* C9: the normalizer is idempotent: called on the value it returned, it
\* returns that value again.
C9_Idempotent == [][(pc = "normalize" /\ calls = 1) => ret' = ret]_vars

\* The second call has returned its argument, a list where the first call
\* had merged two inserts into one.
C9_Witness ==
    /\ pc = "normalize"
    /\ calls = 2
    /\ ret = arg
    /\ \E k \in 1..Len(ret) : IsStr(ret[k]) /\ Len(ret[k].insert.text) >= 2

\* C10: in every operation of the output the attributes key, when present,
\* maps to a non-empty mapping.  _handle_image gives an image without alt
\* text the attributes {}.
C10_NoEmptyAttributes ==
    \A k \in 1..Len(result.ops) :
        HasAttributes(result.ops[k]) => DOMAIN result.ops[k].attributes # {}

\* The attribute keys of an operation ({} when it has no attributes key).
AttrKeys(op) == IF HasAttributes(op) THEN DOMAIN op.attributes ELSE {}

\* C11: no insert of the output carries code together with bold, italic or
\* strike.  _parse_nested_inline resolves a code span inside a bold span,
\* and a bold or italic span inside a code span, to the union of the keys.
C11_CodeNeverWithFormat ==
    \A k \in 1..Len(result.ops) :
        "code" \in AttrKeys(result.ops[k]) =>
            AttrKeys(result.ops[k]) \cap {"bold", "italic", "strike"} = {}

\* The block kind of a line, by the precedence of the scanner.  A checklist
\* line is of kind "list": the unordered-list pattern matches it.
LineKind(ln) ==
    IF IsFenceOpen(ln) THEN "fence"
    ELSE IF _is_horizontal_rule(ln) THEN "rule"
    ELSE IF HeaderMatch(ln).ok THEN "header"
    ELSE IF BlockquoteMatch(ln).ok THEN "blockquote"
    ELSE IF UnorderedMatch(ln).ok \/ OrderedMatch(ln).ok THEN "list"
    ELSE "paragraph"

BlockKinds == {"header", "blockquote", "list"}

\* A "\n" insert that carries a block attribute.
IsBlockNewline(op) ==
    IsStr(op) /\ op.insert.text = Newline /\ AttrKeys(op) \cap BlockKinds # {}

NoFenceLine == \A k \in 1..Len(lines) : ~IsFenceOpen(lines[k])

\* C12: a heading, blockquote or list-item line emits exactly one "\n"
\* insert, after the line's inline inserts, carrying the block's attribute
\* (and indent only for a list); a paragraph or blank line ends in a "\n"
\* without attributes.  In the output the tagged newlines are one per such
\* line, and the "\n" of a final paragraph or blank line ends an insert
\* without attributes.
C12_BlockNewline ==
    /\ LineKind(line) \in BlockKinds =>
          /\ emitted # <<>>
          /\ IsStr(emitted[Len(emitted)])
          /\ emitted[Len(emitted)].insert.text = Newline
          /\ LineKind(line) \in AttrKeys(emitted[Len(emitted)])
          /\ AttrKeys(emitted[Len(emitted)]) \subseteq {LineKind(line), "indent"}
          /\ ("indent" \in AttrKeys(emitted[Len(emitted)])) => LineKind(line) = "list"
          /\ NewlineChars(SubSeq(emitted, 1, Len(emitted) - 1)) = 0
          /\ \A k \in 1..(Len(emitted) - 1) :
                AttrKeys(emitted[k]) \cap (BlockKinds \cup {"indent"}) = {}
    /\ (i > 0 /\ LineKind(line) = "paragraph") =>
          /\ emitted # <<>>
          /\ emitted[Len(emitted)] = TextOp(Newline)
          /\ NewlineChars(SubSeq(emitted, 1, Len(emitted) - 1)) = 0
    /\ (pc = "done" /\ NoFenceLine) =>
          Len(SelectSeq(result.ops, IsBlockNewline))
             = Cardinality({k \in 1..Len(lines) : LineKind(lines[k]) \in BlockKinds})
    /\ (pc = "done" /\ i > 0 /\ LineKind(line) = "paragraph") =>
          /\ result.ops # <<>>
          /\ IsStr(result.ops[Len(result.ops)])
          /\ ~HasAttributes(result.ops[Len(result.ops)])
          /\ result.ops[Len(result.ops)].insert.text
                [Len(result.ops[Len(result.ops)].insert.text)] = "\n"

\* A blockquote line and a heading line, each with its tagged newline.
C12_Witness ==
    /\ pc = "done"
    /\ Len(lines) = 2
    /\ LineKind(lines[1]) = "blockquote"
    /\ LineKind(lines[2]) = "header"
    /\ Len(SelectSeq(result.ops, IsBlockNewline)) = 2

\* Every operation is a string insert, an image embed or a divider embed.
WellFormedOp(op) ==
    /\ "insert" \in DOMAIN op
    /\ DOMAIN op \subseteq {"insert", "attributes"}
    /\ DOMAIN op.insert \in {{"text"}, {"image"}, {"divider"}}

\* C13: convert is total and terminates: a call is always at one of its
\* three places and never reads a line past the end, every iteration of the
\* line loop advances the cursor by at least one line, the loop is left
\* with the cursor equal to the number of lines, and the call returns a
\* list of well-formed operations.
C13_TotalAndTerminates ==
    /\ [](/\ pc \in {"convert", "scan", "done"}
          /\ i \in 0..Len(lines)
          /\ \A k \in 1..Len(result.ops) : WellFormedOp(result.ops[k]))
    /\ [][(pc = "scan" /\ pc' = "scan") => (i' > i /\ i' <= Len(lines))]_vars
    /\ [][(pc = "scan" /\ pc' = "done") => (i = Len(lines) /\ i' = i)]_vars
    /\ <>(pc = "done")

\* An unterminated fence on the first of two lines: one iteration takes the
\* cursor to the end.
C13_Witness ==
    /\ pc = "done"
    /\ Len(lines) = 2
    /\ IsFenceOpen(lines[1])
    /\ line = lines[1]
    /\ i = 2

\* C14: convert calls that run at the same time on one instance, interleaved
\* at any step: each returns what the same call returns when it runs alone,
\* the instance (its pattern table) is never written, and a step of one call
\* changes the locals of that call only.
C14_ConcurrentAsAlone ==
    /\ [](/\ converter = MarkdownToDelta
          /\ \A t \in DOMAIN threads :
                threads[t].pc = "done" =>
                    threads[t].result = convert(MarkdownToDelta, threads[t].markdown))
    /\ [][/\ converter' = converter
          /\ \A t, u \in DOMAIN threads :
                (t # u /\ threads'[t] # threads[t]) => threads'[u] = threads[u]]_vars

\* Two calls on different inputs, both inside the line loop after at least
\* one iteration each.
C14_Witness ==
    /\ pc = "threads"
    /\ threads[1].markdown # threads[2].markdown
    /\ \A t \in {1, 2} :
          /\ threads[t].pc = "scan"
          /\ threads[t].i >= 1
          /\ threads[t].i < Len(threads[t].lines)
          /\ threads[t].ops # <<>>

\* C15: convert holds no state across invocations: a call on an instance
\* that has served other calls returns what a call on a new instance returns,
\* so it returns what every earlier call with the same markdown returned;
\* no call changes the pattern table of the instance or a result an earlier
\* call returned.
C15_NoStateAcrossCalls ==
    /\ [](/\ converter = MarkdownToDelta
          /\ pc = "done" =>
                /\ result = convert(MarkdownToDelta, markdown)
                /\ \A j \in 1..Len(returned) :
                      returned[j].markdown = markdown => returned[j].result = result)
    /\ [][/\ converter' = converter
          /\ SubSeq(returned', 1, Len(returned)) = returned]_vars

\* The third call has returned; it converted what the first call converted,
\* with a call on another input in between.
C15_Witness ==
    /\ pc = "done"
    /\ Len(returned) = 2
    /\ returned[1].markdown = markdown
    /\ returned[2].markdown # markdown
    /\ returned[2].result.ops # <<>>
    /\ result.ops # <<>>

\* The 1-based index of the line that closes a fenced block opened on the
\* first line: the first later line that is three backticks when trimmed,
\* one past the last line when there is none.
FirstBlockClose ==
    Min({k \in 2..Len(lines) : Strip(lines[k]) = Fence} \cup {Len(lines) + 1})

\* The content lines of that block.
FirstBlockLines == SubSeq(lines, 2, FirstBlockClose - 1)

\* The first line opens a fenced block and the iteration that handled the
\* block is the one that ran last.
AfterFirstFence ==
    /\ lines # <<>>
    /\ IsFenceOpen(lines[1])
    /\ line = lines[1]
    /\ i > 0
    /\ i = Min({FirstBlockClose, Len(lines)})

\* A "\n" insert tagged code-block and nothing else.
IsCodeNewline(op) ==
    IsStr(op) /\ op.insert.text = Newline /\ AttrKeys(op) = {"code-block"}

\* C16: a fenced block with n content lines, not all empty, emits exactly n
\* newline inserts tagged code-block.  The code appends one more after the
\* loop ("Final newline for code block") whenever the last content line is
\* not empty.
C16_OneNewlinePerCodeLine ==
    (AfterFirstFence /\ \E k \in 1..Len(FirstBlockLines) : FirstBlockLines[k] # <<>>) =>
        Len(SelectSeq(emitted, IsCodeNewline)) = Len(FirstBlockLines)

\* The 1-based index of the line that closes the block opened on line k:
\* the first later line that is three backticks when trimmed, one past the
\* last line when there is none.
CloseAfter(k) ==
    Min({j \in (k + 1)..Len(lines) : Strip(lines[j]) = Fence} \cup {Len(lines) + 1})

\* The content lines of the block opened on line k.
ContentLines(k) == SubSeq(lines, k + 1, CloseAfter(k) - 1)

NonEmpty(ln) == ln # <<>>

IsPlainText(op) == IsStr(op) /\ ~HasAttributes(op)

\* Each line as one plain insert.
TextOps(ls) == [k \in 1..Len(ls) |-> TextOp(ls[k])]

\* C17: the iteration that finds an opening fence under the cursor consumes
\* the lines up to the first line that is three backticks when trimmed: the
\* cursor resumes after that line (content lines + 2 consumed) or, without
\* one, at the end of the input (all remaining lines consumed); the text of
\* the content lines is emitted as it is, as plain inserts, and every other
\* operation of the block is a newline tagged code-block.
C17_FenceConsumesVerbatim ==
    [][(pc = "scan" /\ i < Len(lines) /\ IsFenceOpen(lines[i + 1])) =>
          /\ line' = lines[i + 1]
          /\ i' = Min({CloseAfter(i + 1), Len(lines)})
          /\ (CloseAfter(i + 1) <= Len(lines)) =>
                i' - i = Len(ContentLines(i + 1)) + 2
          /\ (CloseAfter(i + 1) > Len(lines)) =>
                (i' = Len(lines) /\ i' - i = Len(ContentLines(i + 1)) + 1)
          /\ \A k \in 1..Len(emitted') :
                IsPlainText(emitted'[k]) \/ IsCodeNewline(emitted'[k])
          /\ (Join(ContentLines(i + 1)) # <<>>) =>
                SelectSeq(emitted', IsPlainText)
                   = TextOps(SelectSeq(ContentLines(i + 1), NonEmpty))
          /\ (Join(ContentLines(i + 1)) = <<>>) => emitted' = <<>>]_vars

\* The block of ExFencedPy has been handled: its heading-like and bold-like
\* content lines are plain inserts and the cursor is on the line after the
\* closing fence.
C17_Witness ==
    /\ markdown = ExFencedPy
    /\ pc = "scan"
    /\ i = 5
    /\ line = lines[1]
    /\ emitted[1] = TextOp(<<"#", " ", "a">>)
    /\ TextOp(<<"*", "*", "b", "*", "*">>) \in {emitted[k] : k \in 1..Len(emitted)}

RuleChars == {"-", "*", "_"}

\* Three or more of the character c and nothing else.
ContiguousRule(stripped, c) ==
    Len(stripped) >= 3 /\ \A k \in 1..Len(stripped) : stripped[k] = c

\* Three or more of the character c, every two of them with whitespace
\* between, and nothing else.
SeparatedRule(stripped, c) ==
    /\ \A k \in 1..Len(stripped) : stripped[k] \in Whitespace \cup {c}
    /\ Cardinality({k \in 1..Len(stripped) : stripped[k] = c}) >= 3
    /\ \A k \in 1..(Len(stripped) - 1) : ~(stripped[k] = c /\ stripped[k + 1] = c)

IsRuleLine(ln) ==
    \E c \in RuleChars : ContiguousRule(Strip(ln), c) \/ SeparatedRule(Strip(ln), c)

\* Only rule characters and whitespace, with two different rule characters.
MixesRuleChars(ln) ==
    /\ \A k \in 1..Len(ln) : ln[k] \in Whitespace \cup RuleChars
    /\ Cardinality({ln[k] : k \in 1..Len(ln)} \cap RuleChars) >= 2

Divider == [insert |-> [divider |-> TRUE]]

\* C18: a line that is, trimmed, three or more of one of '-', '*', '_',
\* contiguous or separated by whitespace, emits the divider embed and then an
\* untagged "\n" and nothing else, whatever the list-item and paragraph
\* classifiers would make of it; a line that mixes rule characters emits no
\* divider.
C18_HorizontalRule ==
    /\ IsRuleLine(line) => emitted = <<Divider, TextOp(Newline)>>
    /\ MixesRuleChars(line) => \A k \in 1..Len(emitted) : emitted[k] # Divider
    /\ (pc = "done" /\ Len(lines) = 1 /\ IsRuleLine(markdown)) =>
          result.ops = <<Divider, TextOp(Newline)>>

\* "* * *", which the unordered-list pattern also matches, came out as a
\* divider.
C18_Witness ==
    /\ pc = "done"
    /\ markdown = <<"*", " ", "*", " ", "*">>
    /\ UnorderedMatch(line).ok
    /\ result.ops = <<Divider, TextOp(Newline)>>

Range(s) == {s[k] : k \in 1..Len(s)}

MaxOf(S) == CHOOSE x \in S : \A y \in S : y <= x

NoneSkipped(table) == [k \in 1..Len(table) |-> FALSE]

\* The candidates of the two resolvers for a text, in the order the pattern
\* loops append them.
InlineCandidates(text) ==
    CollectMatches(inline_patterns, 1, text, NoneSkipped(inline_patterns))

NestedCandidates(text) ==
    CollectMatches(nested_patterns, 1, text, NoneSkipped(nested_patterns))

\* sorted holds the candidates by ascending start, at equal start by
\* descending length, at equal start and length by pattern declaration order.
SortedAsClaimed(cands, sorted) ==
    /\ Len(sorted) = Len(cands)
    /\ Range(sorted) = Range(cands)
    /\ \A j, k \in 1..Len(sorted) :
          j < k =>
             \/ sorted[j].start < sorted[k].start
             \/ /\ sorted[j].start = sorted[k].start
                /\ sorted[j].end > sorted[k].end
             \/ /\ sorted[j].start = sorted[k].start
                /\ sorted[j].end = sorted[k].end
                /\ sorted[j].pat < sorted[k].pat

\* The index in sorted of the last accepted match before index k, 0 for none,
\* and the end offset that goes with it.
LastAccepted(sorted, accepted, k) ==
    MaxOf({j \in 1..(k - 1) : sorted[j] \in Range(accepted)} \cup {0})

EndAt(sorted, j) == IF j = 0 THEN 0 ELSE sorted[j].end

\* accepted holds, in order, exactly the candidates whose start is not
\* before the end of the last accepted one.
AcceptedAsClaimed(sorted, accepted) ==
    /\ accepted = SelectSeq(sorted, LAMBDA m : m \in Range(accepted))
    /\ \A k \in 1..Len(sorted) :
          (sorted[k] \in Range(accepted))
             <=> (sorted[k].start >= EndAt(sorted, LastAccepted(sorted, accepted, k)))

\* The accepted matches do not overlap, their starts increase strictly, and
\* an accepted match is the longest candidate at its start.
AcceptedDisjoint(sorted, accepted) ==
    /\ \A j, k \in 1..Len(accepted) :
          j < k => (accepted[j].end <= accepted[k].start
                    /\ accepted[j].start < accepted[k].start)
    /\ \A k \in 1..Len(accepted) : \A j \in 1..Len(sorted) :
          sorted[j].start = accepted[k].start => sorted[j].end <= accepted[k].end

ResolverOrder(cands) ==
    /\ SortedAsClaimed(cands, SortMatches(cands))
    /\ AcceptedAsClaimed(SortMatches(cands), FilterOverlap(SortMatches(cands), 0))
    /\ AcceptedDisjoint(SortMatches(cands), FilterOverlap(SortMatches(cands), 0))

\* C19: for the text of every scanned line, in _parse_inline and in
\* _parse_nested_inline: the candidates are sorted by ascending start, then
\* descending length, then declaration order; a candidate is accepted if and
\* only if its start is not before the end of the last accepted match; the
\* accepted matches are pairwise disjoint with strictly increasing starts,
\* each the longest candidate at its start.
C19_SortAndFilter ==
    /\ ResolverOrder(InlineCandidates(line))
    /\ ResolverOrder(NestedCandidates(line))

\* A scanned line with two candidates at the same start, and with a
\* candidate rejected for overlapping an accepted one.
C19_Witness ==
    /\ pc = "done"
    /\ \E j, k \in 1..Len(InlineCandidates(line)) :
          /\ j # k
          /\ InlineCandidates(line)[j].start = InlineCandidates(line)[k].start
    /\ Len(FilterOverlap(SortMatches(InlineCandidates(line)), 0))
          < Len(InlineCandidates(line))
    /\ Len(FilterOverlap(SortMatches(InlineCandidates(line)), 0)) >= 1

InlineKeys == {"bold", "italic", "strike", "code"}

\* The keys a segment has beyond those of the outer span.
InnerKeys(seg, outer) == AttrKeys(seg) \ DOMAIN outer

\* The characters the delimiters of a nested span take up in the content:
\* two on each side for bold and strike, one on each side for italic and code.
DelimLen(keys) ==
    IF keys = {} THEN 0
    ELSE IF keys \subseteq {"bold", "strike"} THEN 4
    ELSE 2

\* The characters of the content the segments account for.
RECURSIVE SegmentsLen(_, _)
SegmentsLen(segs, outer) ==
    IF segs = <<>> THEN 0
    ELSE Len(Head(segs).insert.text) + DelimLen(InnerKeys(Head(segs), outer))
         + SegmentsLen(Tail(segs), outer)

\* What a format span with attributes outer and captured text content may
\* be replaced by: segments that all keep the outer attributes; either the
\* one segment with the content as it is, or spliced segments each with at
\* most one more key, one the outer span does not have, whose texts are the
\* content less the delimiters of those inner spans.
NestedAsClaimed(content, outer, segs) ==
    /\ segs # <<>>
    /\ \A k \in 1..Len(segs) :
          /\ IsStr(segs[k])
          /\ DOMAIN outer \subseteq AttrKeys(segs[k])
          /\ \A key \in DOMAIN outer : segs[k].attributes[key] = outer[key]
          /\ InnerKeys(segs[k], outer) \subseteq InlineKeys
          /\ Cardinality(InnerKeys(segs[k], outer)) <= 1
    /\ (Len(segs) = 1) => segs[1] = AttrOp(content, outer)
    /\ SegmentsLen(segs, outer) = Len(content)

Accepted(text) == FilterOverlap(SortMatches(InlineCandidates(text)), 0)

\* C20: for every accepted bold / italic / strike / code span of a scanned
\* line, the operations _handle_format puts in its place keep the outer
\* attributes on every segment, add to a nested segment only a key the outer
\* span does not have, and leave the delimiters of a pattern whose key the
\* outer span has in the text; "**a *b* c**" gives "a " {bold},
\* "b" {bold, italic}, " c" {bold}.
C20_NestedUnion ==
    /\ \A k \in 1..Len(Accepted(line)) :
          inline_patterns[Accepted(line)[k].pat].handler = "format" =>
              NestedAsClaimed(
                  Accepted(line)[k].g1,
                  inline_patterns[Accepted(line)[k].pat].attributes,
                  _handle_format(Accepted(line)[k],
                                 inline_patterns[Accepted(line)[k].pat].attributes))
    /\ (pc = "done" /\ markdown = ExNestedItalic) =>
          result.ops = << AttrOp(<<"a", " ">>, [bold |-> TRUE]),
                          AttrOp(<<"b">>, [bold |-> TRUE, italic |-> TRUE]),
                          AttrOp(<<" ", "c">>, [bold |-> TRUE]),
                          TextOp(Newline) >>

C20_Witness ==
    /\ pc = "done"
    /\ markdown = ExNestedItalic
    /\ Len(result.ops) = 4
    /\ AttrKeys(result.ops[2]) = {"bold", "italic"}
    /\ AttrKeys(result.ops[3]) = {"bold"}

\* The nested matches accepted inside a span with attributes outer.
NestedAccepted(content, outer) ==
    FilterOverlap(
        SortMatches(CollectMatches(nested_patterns, 1, content, NestedSkip(outer))), 0)

\* The number of segments the accepted nested matches cut the content into:
\* one for each match and one for each non-empty stretch between them.
RECURSIVE SegmentCount(_, _, _)
SegmentCount(accepted, pos, n) ==
    IF accepted = <<>> THEN (IF pos < n THEN 1 ELSE 0)
    ELSE (IF Head(accepted).start > pos THEN 1 ELSE 0) + 1
         + SegmentCount(Tail(accepted), Head(accepted).end, n)

\* One nested span is the whole of the content.
WhollyNested(content, outer) ==
    /\ Len(NestedAccepted(content, outer)) = 1
    /\ NestedAccepted(content, outer)[1].start = 0
    /\ NestedAccepted(content, outer)[1].end = Len(content)

\* What replaces a format span: the nested segments when there are two or
\* more of them, else the one insert of the raw content with outer only.
SpliceAsClaimed(content, outer, segs) ==
    /\ SegmentCount(NestedAccepted(content, outer), 0, Len(content)) > 1 =>
          /\ Len(segs) = SegmentCount(NestedAccepted(content, outer), 0, Len(content))
          /\ segs = _parse_nested_inline(content, outer)
    /\ SegmentCount(NestedAccepted(content, outer), 0, Len(content)) <= 1 =>
          segs = <<AttrOp(content, outer)>>
    /\ WhollyNested(content, outer) => segs = <<AttrOp(content, outer)>>

\* C21: an accepted format span is replaced by its nested segments when
\* nested resolution gives more than one, and otherwise by exactly one insert
\* of the raw captured text with exactly the outer attributes; "~~**a**~~"
\* gives "**a**" {strike}, the inner bold not applied.
C21_SpliceOrSingle ==
    /\ \A k \in 1..Len(Accepted(line)) :
          inline_patterns[Accepted(line)[k].pat].handler = "format" =>
              SpliceAsClaimed(
                  Accepted(line)[k].g1,
                  inline_patterns[Accepted(line)[k].pat].attributes,
                  CallHandler(MarkdownToDelta, Accepted(line)[k]))
    /\ (pc = "scan" /\ line = ExWholeNested /\ i = 1) =>
          emitted = << AttrOp(<<"*", "*", "a", "*", "*">>, [strike |-> TRUE]),
                       TextOp(Newline) >>

C21_Witness ==
    /\ pc = "done"
    /\ markdown = ExWholeNested
    /\ result.ops = << AttrOp(<<"*", "*", "a", "*", "*">>, [strike |-> TRUE]),
                       TextOp(Newline) >>

\* The line is c c x c c for the marker character c and a non-empty x
\* without marker characters.
BoldForm(ln, c) ==
    /\ Len(ln) >= 5
    /\ Slice(ln, 0, 2) = <<c, c>>
    /\ Slice(ln, Len(ln) - 2, Len(ln)) = <<c, c>>
    /\ \A k \in 3..(Len(ln) - 2) : ln[k] \notin InlineMarkers \cup {"\n"}

\* The candidates of the italic patterns of a table in a text.
ItalicCandidates(table, text) ==
    {m \in Range(CollectMatches(table, 1, text, NoneSkipped(table))) :
        table[m.pat].re = "italic"}

\* Neither delimiter of the match has the same character next to it.
DelimitersAlone(table, text, m) ==
    /\ At(text, m.start) = table[m.pat].lit[1]
    /\ At(text, m.start - 1) # At(text, m.start)
    /\ At(text, m.start + 1) # At(text, m.start)
    /\ At(text, m.end - 1) = table[m.pat].lit[1]
    /\ At(text, m.end - 2) # At(text, m.end - 1)
    /\ At(text, m.end) # At(text, m.end - 1)

\* C22: no italic pattern, of the inline or of the nested table, matches with
\* a delimiter that has the same marker character next to it; a line
\* "**x**" or "__x__" with x free of marker characters resolves to the single
\* insert x with exactly {bold}, and nothing emitted for it carries italic.
C22_ItalicNotFromBold ==
    /\ \A m \in ItalicCandidates(inline_patterns, line) :
          DelimitersAlone(inline_patterns, line, m)
    /\ \A m \in ItalicCandidates(nested_patterns, line) :
          DelimitersAlone(nested_patterns, line, m)
    /\ \A c \in {"*", "_"} :
          BoldForm(line, c) =>
              /\ _parse_inline(MarkdownToDelta, line) =
                    <<AttrOp(Slice(line, 2, Len(line) - 2), [bold |-> TRUE])>>
              /\ ItalicCandidates(inline_patterns, line) = {}
              /\ \A k \in 1..Len(emitted) : "italic" \notin AttrKeys(emitted[k])
              /\ NoBlockClassifier(line) =>
                    emitted = << AttrOp(Slice(line, 2, Len(line) - 2), [bold |-> TRUE]),
                                 TextOp(Newline) >>

C22_Witness ==
    /\ pc = "done"
    /\ markdown = ExUnderBold
    /\ BoldForm(line, "_")
    /\ result.ops = << AttrOp(<<"a", " ", "b">>, [bold |-> TRUE]), TextOp(Newline) >>

\* The text of the match is open, g1, "](", g2, ")", with no "]" in g1 and
\* no ")" in g2.
BracketForm(text, m, open) ==
    /\ Slice(text, m.start, m.end) = open \o m.g1 \o <<"]", "(">> \o m.g2 \o <<")">>
    /\ \A k \in 1..Len(m.g1) : m.g1[k] # "]"
    /\ \A k \in 1..Len(m.g2) : m.g2[k] # ")"
    /\ m.g2 # <<>>

LinkAsClaimed(text, m, segs) ==
    /\ BracketForm(text, m, <<"[">>)
    /\ m.g1 # <<>>
    /\ segs = <<[insert |-> [text |-> m.g1], attributes |-> [link |-> m.g2]]>>

ImageAsClaimed(text, m, segs) ==
    /\ BracketForm(text, m, <<"!", "[">>)
    /\ Len(segs) = 1
    /\ segs[1].insert = [image |-> m.g2]
    /\ DOMAIN segs[1].attributes = (IF m.g1 = <<>> THEN {} ELSE {"alt"})
    /\ m.g1 # <<>> => segs[1].attributes.alt = m.g1

\* In a text that is one image with alt text, the link pattern matches one
\* character after the start of the image match; no match that starts inside
\* an accepted image match is accepted.
ImageBeatsLink(text, m) ==
    /\ (m.g1 # <<>> /\ m.start = 0 /\ m.end = Len(text)) =>
          \E c \in Range(InlineCandidates(text)) :
              inline_patterns[c.pat].handler = "link" /\ c.start = m.start + 1
    /\ \A k \in 1..Len(Accepted(text)) :
          ~(Accepted(text)[k].start > m.start /\ Accepted(text)[k].start < m.end)

\* C23: an accepted link match is replaced by exactly one insert, the
\* captured text as it is with the one attribute link: url; an accepted image
\* match by exactly one embed {image: url}, with alt only when the alt text is
\* not empty; the link match inside an image is never accepted.
C23_LinkAndImage ==
    /\ \A k \in 1..Len(Accepted(line)) :
          /\ inline_patterns[Accepted(line)[k].pat].handler = "link" =>
                LinkAsClaimed(line, Accepted(line)[k],
                              CallHandler(MarkdownToDelta, Accepted(line)[k]))
          /\ inline_patterns[Accepted(line)[k].pat].handler = "image" =>
                /\ ImageAsClaimed(line, Accepted(line)[k],
                                  CallHandler(MarkdownToDelta, Accepted(line)[k]))
                /\ ImageBeatsLink(line, Accepted(line)[k])
    /\ (pc = "done" /\ markdown = ExImage) =>
          result.ops = << [insert |-> [image |-> <<"u">>], attributes |-> [alt |-> <<"a">>]],
                          TextOp(Newline) >>
    /\ (pc = "done" /\ markdown = ExLinkBold) =>
          result.ops = << AttrOp(<<"*", "*", "a", "*", "*">>, [link |-> <<"u">>]),
                          TextOp(Newline) >>

C23_Witness ==
    /\ pc = "done"
    /\ markdown = ExLinkBold
    /\ Len(Accepted(line)) = 1
    /\ inline_patterns[Accepted(line)[1].pat].handler = "link"
    /\ result.ops[1] = AttrOp(<<"*", "*", "a", "*", "*">>, [link |-> <<"u">>])

\* An operation the normalizer must leave alone: attributed, or an embed.
IsFixed(op) == HasAttributes(op) \/ ~IsStr(op)

\* The contents of all string inserts, attributed or not, in order.
RECURSIVE AllText(_)
AllText(oplist) ==
    IF oplist = <<>> THEN <<>>
    ELSE (IF IsStr(Head(oplist)) THEN Head(oplist).insert.text ELSE <<>>)
         \o AllText(Tail(oplist))

\* The list with every unattributed string insert replaced by its
\* characters: equal for two lists exactly when they have the same fixed
\* operations in the same order and the same unattributed text between them.
RECURSIVE Unmerged(_)
Unmerged(oplist) ==
    IF oplist = <<>> THEN <<>>
    ELSE (IF IsFixed(Head(oplist)) THEN <<Head(oplist)>>
          ELSE [k \in 1..Len(Head(oplist).insert.text) |->
                    [char |-> Head(oplist).insert.text[k]]])
         \o Unmerged(Tail(oplist))

\* Every operation of after that is not fixed is the text of a run of
\* adjacent unattributed string inserts of before.
NormalizedFrom(before, after) ==
    /\ SelectSeq(after, IsFixed) = SelectSeq(before, IsFixed)
    /\ Unmerged(after) = Unmerged(before)
    /\ AllText(after) = AllText(before)
    /\ Len(after) <= Len(before)
    /\ Len(before) - Len(after) <= Cardinality({k \in 1..Len(before) : ~IsFixed(before[k])})

\* The list _cleanup_ops is called on in the next step of the harness.
Given == IF calls = 0 THEN arg ELSE ret

\* C24: the list the normalizer returns has the attributed and the embed
\* operations of its argument, all of them, in the same order and unchanged;
\* the unattributed text between two of them is the same before and after
\* (only empty unattributed inserts are gone, only adjacent unattributed
\* string inserts are joined); the concatenation of all string contents is
\* the same.
C24_NormalizerFrame ==
    [][pc = "normalize" => NormalizedFrom(Given, ret')]_vars

\* A call has joined or dropped unattributed inserts around a styled empty
\* insert and an embed, which are still there.
C24_Witness ==
    /\ pc = "normalize"
    /\ calls = 1
    /\ Len(ret) < Len(arg)
    /\ \E k \in 1..Len(ret) : ret[k] = AttrOp(<<>>, [bold |-> TRUE])
    /\ \E k \in 1..Len(ret) : ~IsStr(ret[k])

\* The delimiters of the format patterns.
Markers == {<<"*">>, <<"_">>, <<"~", "~">>, <<Backtick>>}

\* The offsets of the marker d in the text.
MarkerOffsets(text, d) == {k \in 0..(Len(text) - 1) : HasAt(text, k, d)}

\* The text holds the marker d once and no other character of it.
LoneIn(text, d) ==
    /\ Cardinality(MarkerOffsets(text, d)) = 1
    /\ Cardinality({k \in 1..Len(text) : text[k] = d[1]}) = Len(d)

\* The candidates of the patterns delimited by the character c.
CandidatesOf(text, c) ==
    {m \in Range(InlineCandidates(text)) :
        /\ inline_patterns[m.pat].handler = "format"
        /\ At(text, m.start) = c}

\* Offset k is inside none of the accepted matches.
Uncovered(accepted, k) ==
    \A j \in 1..Len(accepted) : k < accepted[j].start \/ k >= accepted[j].end

\* The stretch of uncovered offsets around the uncovered offset k.
StretchFrom(accepted, k) ==
    MaxOf({0} \cup {accepted[j].end : j \in
                      {j \in 1..Len(accepted) : accepted[j].end <= k}})

StretchTo(accepted, k, n) ==
    Min({n} \cup {accepted[j].start : j \in
                      {j \in 1..Len(accepted) : accepted[j].start > k}})

\* Every uncovered character of the text is in a segment that is the
\* unattributed insert of the uncovered stretch around it.
UncoveredIsPlain(text, accepted, segs) ==
    \A k \in 0..(Len(text) - 1) :
        Uncovered(accepted, k) =>
            \E j \in 1..Len(segs) :
                segs[j] = TextOp(Slice(text, StretchFrom(accepted, k),
                                       StretchTo(accepted, k, Len(text))))

\* C25: a marker that is alone in the line is matched by no pattern; every
\* character of the line outside the accepted spans, an unmatched marker
\* among them, is in an unattributed insert that holds the stretch of text
\* between the spans unchanged; a line with no accepted span resolves to the
\* one unattributed insert of the line, and a paragraph of one such line is
\* returned as that text and its newline.
C25_UnmatchedMarkerPlain ==
    /\ \A d \in Markers :
          LoneIn(line, d) => CandidatesOf(line, d[1]) = {}
    /\ UncoveredIsPlain(line, Accepted(line), _parse_inline(MarkdownToDelta, line))
    /\ (line # <<>> /\ Accepted(line) = <<>>) =>
          /\ _parse_inline(MarkdownToDelta, line) = <<TextOp(line)>>
          /\ (Strip(line) # <<>> /\ NoBlockClassifier(line)) =>
                emitted = <<TextOp(line), TextOp(Newline)>>
          /\ (pc = "done" /\ markdown = line /\ Strip(line) # <<>>
              /\ NoBlockClassifier(line)) =>
                result.ops = <<TextOp(line \o Newline)>>

C25_Witness ==
    /\ pc = "done"
    /\ markdown = ExLoneStar
    /\ LoneIn(line, <<"*">>)
    /\ result.ops = <<TextOp(<<"a", " ", "*", " ", "b", "\n">>)>>

IsPlainStr(op) == IsStr(op) /\ ~HasAttributes(op)

\* A blockquote line without content.
EmptyBlockquote(ln) == BlockquoteMatch(ln).ok /\ BlockquoteMatch(ln).content = <<>>

\* C26: the list convert returns holds no unattributed empty-string insert
\* and no two adjacent unattributed string inserts; an input made of
\* blockquote lines without content returns one newline insert tagged
\* blockquote: true for each line and nothing else.
C26_OutputNormalized ==
    /\ \A k \in 1..Len(result.ops) : result.ops[k] # TextOp(<<>>)
    /\ \A k \in 1..(Len(result.ops) - 1) :
          ~(IsPlainStr(result.ops[k]) /\ IsPlainStr(result.ops[k + 1]))
    /\ (pc = "done" /\ markdown # <<>>
        /\ \A k \in 1..Len(lines) : EmptyBlockquote(lines[k])) =>
          result.ops = [k \in 1..Len(lines) |-> AttrOp(Newline, [blockquote |-> TRUE])]

C26_Witness ==
    /\ pc = "done"
    /\ markdown = <<">">>
    /\ emitted = <<TextOp(<<>>), AttrOp(Newline, [blockquote |-> TRUE])>>
    /\ result.ops = <<AttrOp(Newline, [blockquote |-> TRUE])>>

\* C27: a call of _cleanup_ops leaves the list it was given, and every
\* operation in it, as they were.  The merge loop adds the merged text to
\* the dict it took from the argument, so this fails.
C27_ArgumentUnchanged ==
    [][(pc = "normalize" /\ calls = 0) => arg' = arg]_vars

\* The largest overlap any segment has with the word.
BestOverlap(ws, we, sl) == MaxOf({0} \cup {Overlap(ws, we, sl[k]) : k \in 1..Len(sl)})

\* The result of a scan over all segments: the speaker of the first segment
\* with the largest overlap, when that is positive.
LinearScan(ws, we, sl) ==
    IF BestOverlap(ws, we, sl) = 0 THEN "UNKNOWN"
    ELSE sl[Min({k \in 1..Len(sl) : Overlap(ws, we, sl[k]) = BestOverlap(ws, we, sl)})].speaker

\* C28: whatever the sorted list of segments, overlapping ones included,
\* find_speaker_optimized returns what the scan over all segments returns.
\* The search starts at the last segment that starts at or before the word,
\* so an earlier segment that reaches into the word is not looked at.
C28_SameAsLinearScan ==
    pc = "find_done" =>
        assigned_speaker = LinearScan(word_start, word_end, diarization_segments)

\* No segment ends after the start of the next one.
DisjointSegments(sl) == \A k \in 1..(Len(sl) - 1) : sl[k].end <= sl[k + 1].start

SameAsLinearScanIfDisjoint ==
    (pc = "find_done" /\ DisjointSegments(diarization_segments)) =>
        assigned_speaker = LinearScan(word_start, word_end, diarization_segments)

\* models_loaded is true only with both models loaded.
LoadedMeansBoth ==
    models_loaded => (whisper_model # "None" /\ pyannote_pipeline # "None")

\* Once true, models_loaded stays true.
LoadedStays == [][models_loaded => models_loaded']_vars

\* After load_models_background has finished, models_loading is false.
NotLoadingAfterLoad == pc = "serving" => ~models_loading

\* A /transcribe request handled while models_loaded was false returned an error.
NoTranscriptUnlessLoaded ==
    \A k \in 1..Len(responses) :
        responses[k].kind = "transcript" => responses[k].models_loaded

\* C29: models_loaded is true only when both models are loaded and never
\* goes back to false; models_loading is false once the loading has ended,
\* in success or in failure; no /transcribe request handled with
\* models_loaded false returns a transcript.  transcribe_audio does not read
\* models_loaded, and both globals can be set without it being true, so the
\* last part fails.
C29_ReadinessFlag ==
    /\ []LoadedMeansBoth
    /\ LoadedStays
    /\ []NotLoadingAfterLoad
    /\ []NoTranscriptUnlessLoaded

\* C30: a request in which a step failed ended in the JSON error response
\* with status 500, and no conversation document of that request is in the
\* store.  The except clause calls delete() on a local that is unbound when
\* the failure came before its assignment, so this fails.
C30_FailureGivesJsonError ==
    \A k \in 1..Len(replies) :
        replies[k].kind # "created" =>
            /\ replies[k].kind = "error"
            /\ replies[k].status = 500
            /\ replies[k].request \notin conversations

\* A failure after the assignment of conversation_doc_ref, with delete()
\* returning, ends as the claim says.
ErrorReplyLeavesNoDocument ==
    \A k \in 1..Len(replies) :
        replies[k].kind = "error" =>
            replies[k].status = 500 /\ replies[k].request \notin conversations

====
